---- MODULE Spec2Model ----
(***************************************************************************)
(* Model of the pather utilities of koolo (package pather, in              *)
(* src/internal/server/http_server_logs.go): the world snapshot pf.data,   *)
(* the configuration pf.cfg, the game reader pf.gr, and the planner        *)
(* operations LineOfSight, OptimizeRoomsTraverseOrder, MoveThroughPath,    *)
(* MoveCharacter and DirectionalMovement.  Every call made on the input    *)
(* dispatcher pf.hid and on the packet sender is appended to the log hid.  *)
(* The log ring buffer and its manager (package server, in                 *)
(* src/unnamed/part_001) are modelled by buffer and manager.               *)
(***************************************************************************)
EXTENDS Integers, Sequences, FiniteSets, TLC

VARIABLES
    data,          \* pf.data: the world snapshot
    cfg,           \* pf.cfg.PacketCasting
    gr,            \* pf.gr: GameAreaSizeX, GameAreaSizeY
    packetSender,  \* pf.packetSender: "nil" or "sender"
    los,           \* the frame of the running LineOfSight call
    tour,          \* the frame of the OptimizeRoomsTraverseOrder call
    call,          \* the frame of the running planner call
    hid,           \* calls made on pf.hid, pf.packetSender and utils.Sleep
    search,        \* the frame of the running findPath call
    buffer,        \* a LogBuffer (package server): entries, maxSize, head, count
    manager        \* a LogBufferManager and the goroutines running on it

vars == <<data, cfg, gr, packetSender, los, tour, call, hid, search, buffer, manager>>

(***************************************************************************)
(* Bounds of the model.                                                    *)
(***************************************************************************)
GridMax == 3        \* LineOfSight: coordinates range over 0..GridMax
MaxBlocked == 1     \* LineOfSight: at most this many blocked cells in the grid
MaxRooms == 3       \* OptimizeRoomsTraverseOrder: at most this many rooms
MaxPathLen == 3     \* MoveThroughPath: paths of at most this many points
MaxObjects == 3     \* HasDoorBetween: at most this many objects in the snapshot

Pos(x, y) == [X |-> x, Y |-> y]

Abs(n) == IF n < 0 THEN -n ELSE n

\* Go's int(f) of a quotient n/d with d > 0: truncation toward zero.
TruncDiv(n, d) == IF n >= 0 THEN n \div d ELSE -((-n) \div d)

Range(s) == {s[i] : i \in 1..Len(s)}

(***************************************************************************)
(* float32 arithmetic, on integers.  A float32 has a 24 bit significand;   *)
(* RoundMant rounds an integer (a number of units 2^-u) to 24 significant  *)
(* bits, ties to even, as every float32 operation rounds its result.       *)
(***************************************************************************)
MantBits(a) == CHOOSE s \in 0..7 : a < 2^(24 + s) /\ (s = 0 \/ a >= 2^(23 + s))

RoundMant(n) ==
    LET a == Abs(n)
        s == MantBits(a)
        q == a \div 2^s
        rem == a % 2^s
        up == IF s > 0 /\ (rem > 2^(s-1) \/ (rem = 2^(s-1) /\ q % 2 = 1))
              THEN 1 ELSE 0
        r == (q + up) * 2^s
    IN  IF n >= 0 THEN r ELSE -r

\* float32(19.8) = F32_19_8 * 2^-19 and float32(9.9) = F32_19_8 * 2^-20
F32_19_8 == 10380902
\* float32(1.19) = F32_1_19 * 2^-23
F32_1_19 == 9982444

\* int((float32(diff) * k) + float32(half)) for k = F32_19_8 * 2^-u
ProjectAxis(diff, u, half) ==
    TruncDiv(RoundMant(RoundMant(diff * F32_19_8) + half * 2^u), 2^u)

\* The binary long division of float32(h)/float32(1.19): quotient bits are
\* produced until the quotient holds 25 bits (24 and a guard bit).
RECURSIVE DivBits(_, _, _)
DivBits(q, r, u) ==
    IF q >= 2^24 THEN [q |-> q, r |-> r, u |-> u]
    ELSE LET bit == IF 2 * r >= F32_1_19 THEN 1 ELSE 0
         IN  DivBits(2 * q + bit, 2 * r - bit * F32_1_19, u + 1)

\* int(float32(pf.gr.GameAreaSizeY) / 1.19), for 0 <= h < 256
HudBoundary(h) ==
    IF h = 0 THEN 0
    ELSE LET d == DivBits((h * 2^23) \div F32_1_19, (h * 2^23) % F32_1_19, 0)
             mant == d.q \div 2
             up == IF d.q % 2 = 1 /\ (d.r # 0 \/ mant % 2 = 1) THEN 1 ELSE 0
         IN  (mant + up) \div 2^(d.u - 1)

\* The window sizes of the runs and the two float32 computations above,
\* tabulated for them and for the displacements of the runs
WindowSizes ==
    {[GameAreaSizeX |-> 60, GameAreaSizeY |-> 50],
     [GameAreaSizeX |-> 61, GameAreaSizeY |-> 51],
     [GameAreaSizeX |-> 900, GameAreaSizeY |-> 240]}

DiffRange == -20..20

ProjectAxisOf ==
    [diff \in DiffRange, u \in {19, 20},
     half \in {w.GameAreaSizeX \div 2 : w \in WindowSizes}
                \cup {w.GameAreaSizeY \div 2 : w \in WindowSizes}
        |-> ProjectAxis(diff, u, half)]

HudBoundaryOf == [h \in {w.GameAreaSizeY : w \in WindowSizes} |-> HudBoundary(h)]

\* Mutant: the destination is projected without subtracting the player.
gameCoordsToScreenCordsAbsolute(playerX, playerY, destinationX, destinationY) ==
    [X |-> ProjectAxisOf[destinationX - destinationY, 19, gr.GameAreaSizeX \div 2],
     Y |-> ProjectAxisOf[destinationX + destinationY, 20, gr.GameAreaSizeY \div 2]]

\* gameCoordsToScreenCords: the isometric projection of a world point
gameCoordsToScreenCords(playerX, playerY, destinationX, destinationY) ==
    LET diffX == destinationX - playerX
        diffY == destinationY - playerY
    IN  [X |-> ProjectAxisOf[diffX - diffY, 19, gr.GameAreaSizeX \div 2],
         Y |-> ProjectAxisOf[diffX + diffY, 20, gr.GameAreaSizeY \div 2]]

(***************************************************************************)
(* The collision grid.  data.AreaData.Grid is a pointer: nil, or a grid    *)
(* with an origin offset, a size and the collision flags (nil, or the set  *)
(* of walkable grid-local cells).                                          *)
(***************************************************************************)
NilGrid ==
    [nil |-> TRUE, OffsetX |-> 0, OffsetY |-> 0, Width |-> 0, Height |-> 0,
     CollisionGrid |-> [nil |-> TRUE, walkable |-> {}]]

MkGrid(ox, oy, w, h, cells) ==
    [nil |-> FALSE, OffsetX |-> ox, OffsetY |-> oy, Width |-> w, Height |-> h,
     CollisionGrid |-> [nil |-> FALSE, walkable |-> cells]]

\* Grid.IsWalkable: a position outside the grid is not walkable
IsWalkable(g, p) ==
    LET rx == p.X - g.OffsetX
        ry == p.Y - g.OffsetY
    IN  /\ rx >= 0 /\ rx < g.Width
        /\ ry >= 0 /\ ry < g.Height
        /\ <<rx, ry>> \in g.CollisionGrid.walkable

(***************************************************************************)
(* The world snapshot, the configuration and the idle frames.              *)
(***************************************************************************)
Areas == {"RogueEncampment", "BloodMoor", "FlayerJungle", "LowerKurast", "RiverOfFlame"}

\* area.ID.IsTown
IsTown(a) == a = "RogueEncampment"

DefaultData ==
    [AreaData |-> [Grid |-> NilGrid],
     PlayerUnit |-> [Position |-> Pos(0, 0), Area |-> "BloodMoor", RightSkill |-> "Attack"],
     Rooms |-> <<>>,
     Objects |-> <<>>,
     AreaOrigin |-> Pos(0, 0),
     KeyBindings |-> [ForceMove |-> [Key1 |-> 0, Key2 |-> 0]],
     CanTeleport |-> FALSE,
     PlayerCastDuration |-> 0]

\* *data.Object: nil, or an object with its door and selectable flags
NilObject ==
    [nil |-> TRUE, ID |-> 0, IsDoor |-> FALSE, Selectable |-> FALSE, Position |-> Pos(0, 0)]

Object(id, isDoor, selectable, x, y) ==
    [nil |-> FALSE, ID |-> id, IsDoor |-> isDoor, Selectable |-> selectable,
     Position |-> Pos(x, y)]

DefaultCfg == [UseForTeleport |-> FALSE, UseForSkillSelection |-> FALSE]

DefaultGr == [GameAreaSizeX |-> 0, GameAreaSizeY |-> 0]

LosIdle ==
    [pc |-> "idle", origin |-> Pos(0, 0), destination |-> Pos(0, 0),
     dx |-> 0, dy |-> 0, sx |-> 1, sy |-> 1, err |-> 0, x |-> 0, y |-> 0,
     iters |-> 0, visited |-> <<>>, result |-> FALSE]

TourIdle == [pc |-> "idle", order |-> <<>>]

\* data.Monster: the zero value
ZeroMonster == [Name |-> "", Type |-> "None", Immunities |-> {}]

CallIdle ==
    [pc |-> "idle", op |-> "none", path |-> <<>>, walkDuration |-> 0,
     sel |-> -1, screen |-> Pos(0, 0), worldPos |-> Pos(0, 0),
     usePacket |-> FALSE, ret |-> FALSE, dirs |-> <<>>, random |-> Pos(0, 0),
     origin |-> Pos(0, 0), pathFound |-> FALSE, door |-> NilObject,
     start |-> Pos(0, 0), target |-> Pos(0, 0), distance |-> 0,
     beyond |-> Pos(0, 0), monster |-> ZeroMonster, focusElites |-> FALSE,
     blocked |-> FALSE, skip |-> <<>>]

\* findPath: no call running
SearchIdle ==
    [pc |-> "idle", origin |-> Pos(0, 0), destination |-> Pos(0, 0),
     open |-> {}, closed |-> {}, g |-> <<>>, parent |-> <<>>, steps |-> 0,
     found |-> FALSE, path |-> <<>>, calls |-> 0, prev |-> <<>>]

\* *LogBuffer: nil
NilLogBuffer ==
    [nil |-> TRUE, entries |-> <<>>, maxSize |-> 0, head |-> 0, count |-> 0]

\* No LogBuffer constructed.  b is the buffer; appended is the history of
\* the entries appended since the last Clear and appends the number of all
\* Append calls; op, n, ret and len hold the last call and what it returned.
BufferIdle ==
    [b |-> NilLogBuffer, appended |-> <<>>, appends |-> 0,
     op |-> "none", n |-> 0, ret |-> <<>>, len |-> 0]

\* *LogBufferManager: nil (no manager constructed)
ManagerIdle == [nil |-> TRUE]

(***************************************************************************)
(* LineOfSight                                                             *)
(***************************************************************************)
\* The entry of LineOfSight: dx, dy, sx, sy, err, x, y before the loop
LineOfSightEntry(origin, destination) ==
    LET dx == Abs(destination.X - origin.X)
        dy == Abs(destination.Y - origin.Y)
    IN  [pc |-> "loop", origin |-> origin, destination |-> destination,
         dx |-> dx, dy |-> dy,
         sx |-> IF origin.X > destination.X THEN -1 ELSE 1,
         sy |-> IF origin.Y > destination.Y THEN -1 ELSE 1,
         err |-> dx - dy, x |-> origin.X, y |-> origin.Y,
         iters |-> 0, visited |-> <<>>, result |-> FALSE]

\* Mutant: the walkability test is left out of the loop body.
LineOfSightBodyNoTest(f, g) ==
    LET e2 == 2 * f.err
        stepX == e2 > -f.dy
        stepY == e2 < f.dx
        f1 == [f EXCEPT !.iters = @ + 1, !.visited = Append(@, Pos(f.x, f.y))]
    IN  IF f.x = f.destination.X /\ f.y = f.destination.Y
        THEN [f1 EXCEPT !.pc = "done", !.result = TRUE]
        ELSE [f1 EXCEPT !.err = @ - (IF stepX THEN f.dy ELSE 0) + (IF stepY THEN f.dx ELSE 0),
                        !.x = IF stepX THEN @ + f.sx ELSE @,
                        !.y = IF stepY THEN @ + f.sy ELSE @]

\* Mutant: the destination is compared before the cell is tested, so the
\* destination cell itself is never tested.
LineOfSightBodyDestFirst(f, g) ==
    LET e2 == 2 * f.err
        stepX == e2 > -f.dy
        stepY == e2 < f.dx
        f1 == [f EXCEPT !.iters = @ + 1, !.visited = Append(@, Pos(f.x, f.y))]
    IN  IF f.x = f.destination.X /\ f.y = f.destination.Y
        THEN [f1 EXCEPT !.pc = "done", !.result = TRUE]
        ELSE IF ~IsWalkable(g, Pos(f.x, f.y))
        THEN [f1 EXCEPT !.pc = "done", !.result = FALSE]
        ELSE [f1 EXCEPT !.err = @ - (IF stepX THEN f.dy ELSE 0) + (IF stepY THEN f.dx ELSE 0),
                        !.x = IF stepX THEN @ + f.sx ELSE @,
                        !.y = IF stepY THEN @ + f.sy ELSE @]

\* Mutant: the error term is corrected by dy where the code adds dx.
LineOfSightBodyErrDy(f, g) ==
    LET e2 == 2 * f.err
        stepX == e2 > -f.dy
        stepY == e2 < f.dx
        f1 == [f EXCEPT !.iters = @ + 1, !.visited = Append(@, Pos(f.x, f.y))]
    IN  IF ~IsWalkable(g, Pos(f.x, f.y))
        THEN [f1 EXCEPT !.pc = "done", !.result = FALSE]
        ELSE IF f.x = f.destination.X /\ f.y = f.destination.Y
        THEN [f1 EXCEPT !.pc = "done", !.result = TRUE]
        ELSE [f1 EXCEPT !.err = @ - (IF stepX THEN f.dy ELSE 0) + (IF stepY THEN f.dy ELSE 0),
                        !.x = IF stepX THEN @ + f.sx ELSE @,
                        !.y = IF stepY THEN @ + f.sy ELSE @]

\* One execution of the body of the for loop of LineOfSight on frame f
LineOfSightBody(f, g) ==
    LET e2 == 2 * f.err
        stepX == e2 > -f.dy
        stepY == e2 < f.dx
        f1 == [f EXCEPT !.iters = @ + 1, !.visited = Append(@, Pos(f.x, f.y))]
    IN  IF ~IsWalkable(g, Pos(f.x, f.y))
        THEN [f1 EXCEPT !.pc = "done", !.result = FALSE]
        ELSE IF f.x = f.destination.X /\ f.y = f.destination.Y
        THEN [f1 EXCEPT !.pc = "done", !.result = TRUE]
        ELSE [f1 EXCEPT !.err = @ - (IF stepX THEN f.dy ELSE 0) + (IF stepY THEN f.dx ELSE 0),
                        !.x = IF stepX THEN @ + f.sx ELSE @,
                        !.y = IF stepY THEN @ + f.sy ELSE @]

LosCoords == 0..GridMax

LosCells == {<<x, y>> : x \in 0..(GridMax - 1), y \in 0..(GridMax - 1)}

\* The grids of the LineOfSight runs: GridMax x GridMax cells at offset
\* (0, 0), at most MaxBlocked of them blocked; the positions with a
\* coordinate GridMax lie outside the grid.
LosGrids ==
    {MkGrid(0, 0, GridMax, GridMax, LosCells \ b) :
        b \in {c \in SUBSET LosCells : Cardinality(c) <= MaxBlocked}}

LineOfSightCall(origin, destination) ==
    /\ los.pc = "idle"
    /\ los' = LineOfSightEntry(origin, destination)
    /\ UNCHANGED <<search, buffer, manager, data, cfg, gr, packetSender, tour, call, hid>>

LineOfSightStep ==
    /\ los.pc = "loop"
    /\ los' = LineOfSightBody(los, data.AreaData.Grid)
    /\ UNCHANGED <<search, buffer, manager, data, cfg, gr, packetSender, tour, call, hid>>

LineOfSightReturn ==
    /\ los.pc = "done"
    /\ los' = LosIdle
    /\ UNCHANGED <<search, buffer, manager, data, cfg, gr, packetSender, tour, call, hid>>

InitLOS ==
    /\ \E g \in LosGrids : data = [DefaultData EXCEPT !.AreaData.Grid = g]
    /\ cfg = DefaultCfg
    /\ gr = DefaultGr
    /\ packetSender = "nil"
    /\ los = LosIdle
    /\ tour = TourIdle
    /\ call = CallIdle
    /\ hid = <<>>
    /\ search = SearchIdle
    /\ buffer = BufferIdle
    /\ manager = ManagerIdle

NextLOS ==
    \/ \E ox \in LosCoords, oy \in LosCoords, tx \in LosCoords, ty \in LosCoords :
          LineOfSightCall(Pos(ox, oy), Pos(tx, ty))
    \/ LineOfSightStep
    \/ LineOfSightReturn

SpecLOS == InitLOS /\ [][NextLOS]_vars

LosDone == los.pc = "done"

LosGrid == data.AreaData.Grid

LosLast == los.visited[Len(los.visited)]

\* C2 as stated: LineOfSight(p, p) returns true for every position p, and
\* the loop body runs at most once.  It fails when p is not walkable.
C2_SamePointAlwaysTrue ==
    (LosDone /\ los.origin = los.destination) => (los.result /\ los.iters <= 1)

\* C2 as amended: on a snapshot with a collision grid, LineOfSight(p, p)
\* runs the loop body exactly once and returns true exactly when p is
\* walkable (false when p is blocked or outside the grid).
C2_SamePoint ==
    (LosDone /\ los.origin = los.destination) =>
        /\ los.iters = 1
        /\ los.result = IsWalkable(LosGrid, los.origin)

C2_Witness ==
    /\ LosDone /\ los.origin = los.destination
    /\ los.result /\ los.iters = 1

\* A cell lies directly between o and d when it is on the segment from o to d.
DirectlyBetween(o, d, c) ==
    /\ (d.X - o.X) * (c.Y - o.Y) = (d.Y - o.Y) * (c.X - o.X)
    /\ Abs(c.X - o.X) + Abs(d.X - c.X) = Abs(d.X - o.X)
    /\ Abs(c.Y - o.Y) + Abs(d.Y - c.Y) = Abs(d.Y - o.Y)

\* A cell is on the raster line from o to d when it is in the bounding box
\* of o and d and at most half a cell away from the segment, measured along
\* the minor axis.
OnRasterLine(o, d, c) ==
    LET dx == Abs(d.X - o.X)
        dy == Abs(d.Y - o.Y)
        cross == (d.X - o.X) * (c.Y - o.Y) - (d.Y - o.Y) * (c.X - o.X)
    IN  /\ Abs(c.X - o.X) + Abs(d.X - c.X) = dx
        /\ Abs(c.Y - o.Y) + Abs(d.Y - c.Y) = dy
        /\ 2 * Abs(cross) <= (IF dx > dy THEN dx ELSE dy)

\* C3: LineOfSight visits cells of the raster line from origin to
\* destination, starting at the origin; it returns false at the first
\* visited cell that is not walkable and true only when it has reached the
\* destination over walkable cells only; in particular a blocked cell
\* directly between origin and destination makes it return false.
C3_FirstBlockedCell ==
    LosDone =>
        /\ los.visited[1] = los.origin
        /\ \A i \in 1..Len(los.visited) :
              OnRasterLine(los.origin, los.destination, los.visited[i])
        /\ \A i \in 1..(Len(los.visited) - 1) : IsWalkable(LosGrid, los.visited[i])
        /\ los.result = IsWalkable(LosGrid, LosLast)
        /\ los.result => LosLast = los.destination
        /\ los.result =>
              \A x \in LosCoords, y \in LosCoords :
                  DirectlyBetween(los.origin, los.destination, Pos(x, y))
                      => IsWalkable(LosGrid, Pos(x, y))

\* Two walkable points with a blocked cell between them: false is returned
\* at that cell.
C3_Witness ==
    /\ LosDone /\ ~los.result
    /\ Len(los.visited) >= 2
    /\ IsWalkable(LosGrid, los.origin)
    /\ IsWalkable(LosGrid, los.destination)
    /\ DirectlyBetween(los.origin, los.destination, LosLast)

(***************************************************************************)
(* OptimizeRoomsTraverseOrder                                              *)
(***************************************************************************)
Room(x, y, w, h) == [X |-> x, Y |-> y, Width |-> w, Height |-> h]

\* data.Room{}: the zero value of a room
ZeroRoom == Room(0, 0, 0, 0)

\* data.Room.GetCenter
GetCenter(r) == Pos(r.X + r.Width \div 2, r.Y + r.Height \div 2)

\* data.Room.IsInside
IsInside(r, p) ==
    /\ p.X >= r.X /\ p.X <= r.X + r.Width
    /\ p.Y >= r.Y /\ p.Y <= r.Y + r.Height

\* int(math.Sqrt(n)) for an integer n >= 0
ISqrt(n) == CHOOSE r \in 0..n : r * r <= n /\ (r + 1) * (r + 1) > n

DistanceFromPoint(from, to) ==
    ISqrt((to.X - from.X) * (to.X - from.X) + (to.Y - from.Y) * (to.Y - from.Y))

\* distanceMatrix[room1][room2]; a read with a key that is not in the map
\* (a room1 that is not in pf.data.Rooms) yields 0
DistanceMatrix(rooms, room1, room2) ==
    IF room1 \notin Range(rooms) THEN 0
    ELSE IF room1 # room2 THEN DistanceFromPoint(GetCenter(room1), GetCenter(room2))
    ELSE 0

\* The loop of lines 204-209: the last room of the list that contains the
\* player, the zero room when there is none
StartRoom(rooms, p) ==
    LET inside == {i \in 1..Len(rooms) : IsInside(rooms[i], p)}
    IN  IF inside = {} THEN ZeroRoom
        ELSE rooms[CHOOSE i \in inside : \A j \in inside : j <= i]

\* The loop of lines 216-225: the first room of the list among the
\* unvisited rooms nearest to currentRoom (the zero room when every room is
\* visited)
NearestUnvisited(rooms, visited, currentRoom) ==
    LET cand == {i \in 1..Len(rooms) : rooms[i] \notin visited}
        d(i) == DistanceMatrix(rooms, currentRoom, rooms[i])
        best == {i \in cand : \A j \in cand : d(i) < d(j) \/ (d(i) = d(j) /\ i <= j)}
    IN  IF cand = {} THEN ZeroRoom ELSE rooms[CHOOSE i \in best : TRUE]

\* The loop of lines 215-231
RECURSIVE TraverseLoop(_, _, _, _)
TraverseLoop(rooms, order, visited, currentRoom) ==
    IF Len(order) >= Len(rooms) THEN order
    ELSE LET nextRoom == NearestUnvisited(rooms, visited, currentRoom)
         IN  TraverseLoop(rooms, Append(order, nextRoom), visited \cup {nextRoom}, nextRoom)

OptimizeRoomsTraverseOrder(d) ==
    LET currentRoom == StartRoom(d.Rooms, d.PlayerUnit.Position)
    IN  TraverseLoop(d.Rooms, <<currentRoom>>, {currentRoom}, currentRoom)

\* Mutant of OptimizeRoomsCall: the room list of the snapshot is reordered in place.
OptimizeRoomsCallInPlace ==
    /\ tour.pc = "idle"
    /\ tour' = [pc |-> "done", order |-> OptimizeRoomsTraverseOrder(data)]
    /\ data' = [data EXCEPT !.Rooms = OptimizeRoomsTraverseOrder(data)]
    /\ UNCHANGED <<search, buffer, manager, cfg, gr, packetSender, los, call, hid>>

OptimizeRoomsCall ==
    /\ tour.pc = "idle"
    /\ tour' = [pc |-> "done", order |-> OptimizeRoomsTraverseOrder(data)]
    /\ UNCHANGED <<search, buffer, manager, data, cfg, gr, packetSender, los, call, hid>>

OptimizeRoomsReturn ==
    /\ tour.pc = "done"
    /\ tour' = TourIdle
    /\ UNCHANGED <<search, buffer, manager, data, cfg, gr, packetSender, los, call, hid>>

\* The rooms of the runs: three rooms side by side, one that overlaps the
\* first, and the zero room
RoomPool ==
    {Room(0, 0, 4, 4), Room(5, 0, 4, 4), Room(0, 5, 4, 4), Room(3, 3, 4, 4), ZeroRoom}

RECURSIVE DistinctSeqs(_, _)
DistinctSeqs(S, n) ==
    IF n = 0 THEN {<<>>}
    ELSE LET shorter == DistinctSeqs(S, n - 1)
         IN  shorter \cup {Append(q, x) : q \in {t \in shorter : Len(t) = n - 1}, x \in S}

RoomLists == {q \in DistinctSeqs(RoomPool, MaxRooms) :
                 \A i, j \in 1..Len(q) : i # j => q[i] # q[j]}

\* Player positions: inside one room, inside two rooms, outside every room
RoomPlayerPositions == {Pos(0, 0), Pos(1, 1), Pos(4, 4), Pos(6, 1), Pos(2, 8), Pos(20, 20)}

InitRooms ==
    /\ \E rs \in RoomLists, p \in RoomPlayerPositions :
          data = [DefaultData EXCEPT !.Rooms = rs, !.PlayerUnit.Position = p]
    /\ cfg = DefaultCfg
    /\ gr = DefaultGr
    /\ packetSender = "nil"
    /\ los = LosIdle
    /\ tour = TourIdle
    /\ call = CallIdle
    /\ hid = <<>>
    /\ search = SearchIdle
    /\ buffer = BufferIdle
    /\ manager = ManagerIdle

NextRooms == OptimizeRoomsCall \/ OptimizeRoomsReturn

SpecRooms == InitRooms /\ [][NextRooms]_vars

\* C1 as stated: for any list of N distinct rooms and any player position
\* the result has length N, contains every input room exactly once and
\* begins with a room that contains the player.
C1_Permutation ==
    (tour.pc = "done" /\ Len(data.Rooms) >= 1) =>
        /\ Len(tour.order) = Len(data.Rooms)
        /\ Range(tour.order) = Range(data.Rooms)
        /\ IsInside(tour.order[1], data.PlayerUnit.Position)

\* C19 as stated: each room of the order after the first is an unvisited
\* room whose centre is at minimum distance from the centre of the room
\* just before it, the first of the input list among equally near ones.
\* It fails when the player is inside no room: the order then starts with
\* the zero room, from which every distance is read as 0.
C19_GreedyNearest ==
    (tour.pc = "done" /\ Len(data.Rooms) >= 2) =>
        \A k \in 2..Len(tour.order) :
            LET unvisited == {i \in 1..Len(data.Rooms) :
                                 \A j \in 1..(k - 1) : tour.order[j] # data.Rooms[i]}
                dist(i) == DistanceFromPoint(GetCenter(tour.order[k - 1]),
                                             GetCenter(data.Rooms[i]))
            IN  \E i \in unvisited :
                    /\ tour.order[k] = data.Rooms[i]
                    /\ \A j \in unvisited :
                           dist(i) < dist(j) \/ (dist(i) = dist(j) /\ i <= j)

(***************************************************************************)
(* The calls a planner operation makes on the input dispatcher pf.hid, on  *)
(* the packet sender and on utils.Sleep, as entries of the log hid.        *)
(***************************************************************************)
Ev(op, button, x, y, ok) == [op |-> op, button |-> button, x |-> x, y |-> y, ok |-> ok]

MovePointer(x, y) == Ev("MovePointer", "none", x, y, TRUE)

Click(button, x, y) == Ev("Click", button, x, y, TRUE)

PressKeyBinding(kb) == Ev("PressKeyBinding", kb, 0, 0, TRUE)

\* packetSender.SelectRightSkill(skill.Teleport); ok is err == nil
SelectRightSkill(ok) == Ev("SelectRightSkill", "Teleport", 0, 0, ok)

\* packetSender.Teleport(pos); ok is err == nil
Teleport(pos, ok) == Ev("Teleport", "none", pos.X, pos.Y, ok)

Sleep(ms) == Ev("Sleep", "none", ms, 0, TRUE)

\* Path.From: the first point of the path, the zero position of an empty path
From(p) == IF Len(p) = 0 THEN Pos(0, 0) ELSE p[1]

(***************************************************************************)
(* MoveCharacter and pressForceMove                                        *)
(***************************************************************************)
\* Mutant: the force-move key is pressed whatever it is bound to.
pressForceMoveKeyOnly(d, x, y) ==
    <<PressKeyBinding("ForceMove")>>

\* Mutant: the force-move key is pressed although the binding is a mouse button.
pressForceMoveBoth(d, x, y) ==
    LET key1 == d.KeyBindings.ForceMove.Key1
        forceMoveKey == IF key1 = 0 \/ key1 = 255 THEN d.KeyBindings.ForceMove.Key2 ELSE key1
    IN  IF forceMoveKey >= 1 /\ forceMoveKey <= 6 /\ forceMoveKey # 3
        THEN <<Click("Left", x, y), PressKeyBinding("ForceMove")>>
        ELSE <<PressKeyBinding("ForceMove")>>

pressForceMove(d, x, y) ==
    LET key1 == d.KeyBindings.ForceMove.Key1
        forceMoveKey == IF key1 = 0 \/ key1 = 255 THEN d.KeyBindings.ForceMove.Key2 ELSE key1
    IN  IF forceMoveKey >= 1 /\ forceMoveKey <= 6 /\ forceMoveKey # 3
        THEN <<Click("Left", x, y)>>
        ELSE <<PressKeyBinding("ForceMove")>>

\* Mutant: the simulated cast of the teleport branch is a left click.
MoveCharacterLeftCast(d, c, sender, x, y, gamePos) ==
    IF d.CanTeleport
    THEN IF c.UseForTeleport /\ sender # "nil" /\ Len(gamePos) > 0
         THEN [pc |-> "Teleport", events |-> <<>>]
         ELSE [pc |-> "done", events |-> <<Click("Left", x, y)>>]
    ELSE [pc |-> "done",
          events |-> <<MovePointer(x, y)>>
                     \o (IF IsTown(d.PlayerUnit.Area) THEN <<Click("Left", x, y)>>
                         ELSE pressForceMove(d, x, y))
                     \o <<Sleep(50)>>]

\* MoveCharacter(x, y, gamePos...) up to its first call on the packet
\* sender: the calls made so far and where the call stands (pc: waiting for
\* SelectRightSkill or for Teleport to return, or done)
MoveCharacter(d, c, sender, x, y, gamePos) ==
    IF d.CanTeleport
    THEN IF c.UseForTeleport /\ sender # "nil" /\ Len(gamePos) > 0
         THEN IF c.UseForSkillSelection /\ sender # "nil"
                 /\ d.PlayerUnit.RightSkill # "Teleport"
              THEN [pc |-> "SelectRightSkill", events |-> <<>>]
              ELSE [pc |-> "Teleport", events |-> <<>>]
         ELSE [pc |-> "done", events |-> <<Click("Right", x, y)>>]
    ELSE [pc |-> "done",
          events |-> <<MovePointer(x, y)>>
                     \o (IF IsTown(d.PlayerUnit.Area) THEN <<Click("Left", x, y)>>
                         ELSE pressForceMove(d, x, y))
                     \o <<Sleep(50)>>]

\* Lines 382-384: SelectRightSkill has returned (ok: err == nil)
AfterSelectRightSkill(ok) ==
    <<SelectRightSkill(ok)>> \o (IF ok THEN <<Sleep(50)>> ELSE <<>>)

\* Mutant: the fallback right-click goes to the world position of the cast.
AfterTeleportClickWorld(d, x, y, gamePos, ok) ==
    <<Teleport(gamePos, ok)>>
    \o (IF ~ok THEN <<Click("Right", gamePos.X, gamePos.Y)>>
        ELSE <<Sleep(d.PlayerCastDuration)>>)

\* Mutant: a successful protocol teleport is not followed by the settle delay.
AfterTeleportNoSettle(d, x, y, gamePos, ok) ==
    <<Teleport(gamePos, ok)>>
    \o (IF ~ok THEN <<Click("Right", x, y)>> ELSE <<>>)

\* Lines 388-393: Teleport(gamePos[0]) has returned (ok: err == nil)
AfterTeleport(d, x, y, gamePos, ok) ==
    <<Teleport(gamePos, ok)>>
    \o (IF ~ok THEN <<Click("Right", x, y)>> ELSE <<Sleep(d.PlayerCastDuration)>>)

(***************************************************************************)
(* MoveThroughPath: the walk strategy                                      *)
(***************************************************************************)
\* maxDistance := int(float64(25) * walkDuration.Seconds()), the duration
\* given in milliseconds
MaxDistance(walkDurationMs) == TruncDiv(25 * walkDurationMs, 1000)

OutOfWindow(sc) ==
    sc.X < 0 \/ sc.Y < 0 \/ sc.X > gr.GameAreaSizeX \/ sc.Y > gr.GameAreaSizeY

\* Mutant: the distance budget is not applied.
WalkBreaksNoBudget(d, maxDistance, distance, sc) ==
    \/ sc.Y > HudBoundaryOf[gr.GameAreaSizeY]
    \/ OutOfWindow(sc)

\* The three break conditions of the loop of moveThroughPathWalk
WalkBreaks(d, maxDistance, distance, sc) ==
    \/ ~d.CanTeleport /\ maxDistance > 0 /\ distance > maxDistance
    \/ sc.Y > HudBoundaryOf[gr.GameAreaSizeY]
    \/ OutOfWindow(sc)

\* Mutant: a point that violates a bound is skipped and the scan goes on.
RECURSIVE WalkScanContinue(_, _, _, _, _)
WalkScanContinue(d, p, maxDistance, distance, acc) ==
    IF distance >= Len(p) THEN acc
    ELSE LET pos == p[distance + 1]
             sc == gameCoordsToScreenCords(From(p).X, From(p).Y, pos.X, pos.Y)
         IN  IF WalkBreaks(d, maxDistance, distance, sc)
             THEN WalkScanContinue(d, p, maxDistance, distance + 1, acc)
             ELSE WalkScanContinue(d, p, maxDistance, distance + 1,
                                   [screen |-> sc, sel |-> distance])

\* The loop of moveThroughPathWalk from index distance on (indices as in
\* the source, from 0); acc holds screenCords and the index it was set at
RECURSIVE WalkScan(_, _, _, _, _)
WalkScan(d, p, maxDistance, distance, acc) ==
    IF distance >= Len(p) THEN acc
    ELSE LET pos == p[distance + 1]
             sc == gameCoordsToScreenCords(From(p).X, From(p).Y, pos.X, pos.Y)
         IN  IF WalkBreaks(d, maxDistance, distance, sc) THEN acc
             ELSE WalkScan(d, p, maxDistance, distance + 1,
                           [screen |-> sc, sel |-> distance])

moveThroughPathWalk(d, c, sender, p, walkDurationMs) ==
    LET found == WalkScan(d, p, MaxDistance(walkDurationMs), 0,
                          [screen |-> Pos(0, 0), sel |-> -1])
    IN  [walkDuration |-> walkDurationMs,
         sel |-> found.sel, screen |-> found.screen, worldPos |-> Pos(0, 0),
         usePacket |-> FALSE,
         move |-> MoveCharacter(d, c, sender, found.screen.X, found.screen.Y, <<>>)]

(***************************************************************************)
(* MoveThroughPath: the teleport strategy                                  *)
(***************************************************************************)
\* Mutant: the threshold itself does not count as near.
isNearAreaBoundaryStrict(d, pos, threshold) ==
    LET g == d.AreaData.Grid
        dists == {pos.X - g.OffsetX, (g.OffsetX + g.Width) - pos.X,
                  pos.Y - g.OffsetY, (g.OffsetY + g.Height) - pos.Y}
    IN  IF g.nil THEN FALSE
        ELSE \E m \in dists : m < threshold

isNearAreaBoundary(d, pos, threshold) ==
    LET g == d.AreaData.Grid
        distToLeft == pos.X - g.OffsetX
        distToRight == (g.OffsetX + g.Width) - pos.X
        distToTop == pos.Y - g.OffsetY
        distToBottom == (g.OffsetY + g.Height) - pos.Y
        m1 == IF distToRight < distToLeft THEN distToRight ELSE distToLeft
        m2 == IF distToTop < m1 THEN distToTop ELSE m1
        minDistance == IF distToBottom < m2 THEN distToBottom ELSE m2
    IN  IF g.nil THEN FALSE
        ELSE minDistance <= threshold

\* Mutant: River of Flame is not treated as a mouse-click teleport zone.
isMouseClickTeleportZoneTwo(d) ==
    d.PlayerUnit.Area \in {"FlayerJungle", "LowerKurast"}

isMouseClickTeleportZone(d) ==
    d.PlayerUnit.Area \in {"FlayerJungle", "LowerKurast", "RiverOfFlame"}

\* Mutant: the point nearest the origin is taken, not the furthest one.
TeleportScanNearest(p, i) ==
    IF i < 0 THEN -1 ELSE 0

\* The backward loop of moveThroughPathTeleport (which is not passed the
\* walk duration: its frame holds 0 for it) from index i down: the
\* index of the point the cast goes to, -1 when the loop ends without one
RECURSIVE TeleportScan(_, _)
TeleportScan(p, i) ==
    IF i < 0 THEN -1
    ELSE LET pos == p[i + 1]
             sc == gameCoordsToScreenCords(From(p).X, From(p).Y, pos.X, pos.Y)
         IN  IF sc.Y > HudBoundaryOf[gr.GameAreaSizeY] THEN TeleportScan(p, i - 1)
             ELSE IF sc.X >= 0 /\ sc.Y >= 0 /\ sc.X <= gr.GameAreaSizeX
                     /\ sc.Y <= gr.GameAreaSizeY
             THEN i
             ELSE TeleportScan(p, i - 1)

\* Lines 291-309: usePacket for the cast at worldPos
UsePacket(d, c, sender, worldPos) ==
    /\ c.UseForTeleport /\ sender # "nil"
    /\ ~isMouseClickTeleportZone(d)
    /\ ~isNearAreaBoundary(d, worldPos, 60)

moveThroughPathTeleport(d, c, sender, p) ==
    LET i == TeleportScan(p, Len(p) - 1)
    IN  IF i < 0
        THEN [walkDuration |-> 0, sel |-> -1, screen |-> Pos(0, 0),
              worldPos |-> Pos(0, 0), usePacket |-> FALSE,
              move |-> [pc |-> "done", events |-> <<>>]]
        ELSE LET pos == p[i + 1]
                 sc == gameCoordsToScreenCords(From(p).X, From(p).Y, pos.X, pos.Y)
                 worldPos == Pos(pos.X + d.AreaOrigin.X, pos.Y + d.AreaOrigin.Y)
                 usePacket == UsePacket(d, c, sender, worldPos)
             IN  [walkDuration |-> 0, sel |-> i, screen |-> sc,
                  worldPos |-> worldPos, usePacket |-> usePacket,
                  move |-> MoveCharacter(d, c, sender, sc.X, sc.Y,
                              IF usePacket THEN <<worldPos>> ELSE <<>>)]

MoveThroughPath(d, c, sender, p, walkDurationMs) ==
    IF d.CanTeleport
    THEN moveThroughPathTeleport(d, c, sender, p)
    ELSE moveThroughPathWalk(d, c, sender, p, walkDurationMs)

\* The points of the paths of the runs (relative to the area origin) and the
\* paths: from a point of the pool the others project inside the window,
\* below the HUD line or outside the window
PathPoints == {Pos(1, 1), Pos(2, 1), Pos(2, 2), Pos(2, 0)}

RECURSIVE SeqsUpTo(_, _)
SeqsUpTo(S, n) ==
    IF n = 0 THEN {<<>>}
    ELSE LET shorter == SeqsUpTo(S, n - 1)
         IN  shorter \cup {Append(q, x) : q \in {t \in shorter : Len(t) = n - 1}, x \in S}

Paths == SeqsUpTo(PathPoints, MaxPathLen)

\* Walk durations in milliseconds: budgets of 0, 1 and 2 points
WalkDurations == {0, 40, 80}

\* MoveThroughPath(p, walkDuration), run up to its first call on the
\* packet sender or, when it makes none, to its end
MoveThroughPathCall(p, walkDurationMs) ==
    /\ call.pc = "idle"
    /\ \E r \in {MoveThroughPath(data, cfg, packetSender, p, walkDurationMs)} :
           /\ call' = [CallIdle EXCEPT !.pc = r.move.pc, !.op = "MoveThroughPath",
                                       !.path = p, !.walkDuration = r.walkDuration,
                                       !.sel = r.sel, !.screen = r.screen,
                                       !.worldPos = r.worldPos,
                                       !.usePacket = r.usePacket]
           /\ hid' = r.move.events
    /\ UNCHANGED <<search, buffer, manager, data, cfg, gr, packetSender, los, tour>>

\* packetSender.SelectRightSkill returns; MoveCharacter goes on to Teleport
SelectRightSkillReturn(ok) ==
    /\ call.pc = "SelectRightSkill"
    /\ hid' = hid \o AfterSelectRightSkill(ok)
    /\ call' = [call EXCEPT !.pc = "Teleport"]
    /\ UNCHANGED <<search, buffer, manager, data, cfg, gr, packetSender, los, tour>>

\* packetSender.Teleport returns; MoveCharacter and MoveThroughPath end
TeleportReturn(ok) ==
    /\ call.pc = "Teleport"
    /\ hid' = hid \o AfterTeleport(data, call.screen.X, call.screen.Y, call.worldPos, ok)
    /\ call' = [call EXCEPT !.pc = "done"]
    /\ UNCHANGED <<search, buffer, manager, data, cfg, gr, packetSender, los, tour>>

PlannerReturn ==
    /\ call.pc = "done"
    /\ call' = CallIdle
    /\ hid' = <<>>
    /\ UNCHANGED <<search, buffer, manager, data, cfg, gr, packetSender, los, tour>>

\* The area rectangle of the runs and the area origins: with the path
\* points above, the cast lands far from every edge, 60 and 61 units from
\* the left edge, 29 and 30 units from it, outside the rectangle, and 60 and
\* 61 units from the right and from the bottom edge
MoveGrid == MkGrid(0, 0, 200, 200, {})

MoveOrigins == {Pos(100, 100), Pos(59, 100), Pos(28, 100), Pos(-3, 100), Pos(138, 138)}

ForceMoveBindings ==
    {[Key1 |-> 70, Key2 |-> 0], [Key1 |-> 1, Key2 |-> 0],
     [Key1 |-> 0, Key2 |-> 4], [Key1 |-> 255, Key2 |-> 3]}

\* Snapshots in which the player walks
WalkSnapshots ==
    {[DefaultData EXCEPT !.AreaData.Grid = MoveGrid,
                         !.PlayerUnit.Area = a,
                         !.KeyBindings.ForceMove = kb,
                         !.PlayerCastDuration = 280] :
        a \in Areas, kb \in ForceMoveBindings}

\* Snapshots in which the player can teleport: with the area rectangle and
\* each area origin, and without a grid
TeleportSnapshots ==
    {[DefaultData EXCEPT !.AreaData.Grid = g[1],
                         !.AreaOrigin = g[2],
                         !.PlayerUnit.Area = a,
                         !.KeyBindings.ForceMove = [Key1 |-> 70, Key2 |-> 0],
                         !.CanTeleport = TRUE,
                         !.PlayerCastDuration = 280] :
        g \in ({MoveGrid} \X MoveOrigins) \cup {<<NilGrid, Pos(59, 100)>>}, a \in Areas}

\* Snapshots in which the player can teleport and protocol skill selection
\* is configured: the right skill is Teleport or another skill
SkillSnapshots ==
    {[DefaultData EXCEPT !.AreaData.Grid = MoveGrid,
                         !.AreaOrigin = o,
                         !.PlayerUnit.Area = a,
                         !.PlayerUnit.RightSkill = rs,
                         !.KeyBindings.ForceMove = [Key1 |-> 70, Key2 |-> 0],
                         !.CanTeleport = TRUE,
                         !.PlayerCastDuration = 280] :
        o \in {Pos(100, 100), Pos(28, 100)}, a \in {"BloodMoor", "FlayerJungle"},
        rs \in {"Teleport", "Attack"}}

InitMove ==
    /\ \/ /\ data \in WalkSnapshots
          /\ \E u \in BOOLEAN :
                /\ cfg = [UseForTeleport |-> u, UseForSkillSelection |-> u]
                /\ packetSender = IF u THEN "sender" ELSE "nil"
       \/ /\ data \in TeleportSnapshots
          /\ \E u \in BOOLEAN : cfg = [UseForTeleport |-> u, UseForSkillSelection |-> FALSE]
          /\ packetSender \in {"nil", "sender"}
       \/ /\ data \in SkillSnapshots
          /\ \E u \in BOOLEAN : cfg = [UseForTeleport |-> u, UseForSkillSelection |-> TRUE]
          /\ packetSender \in {"nil", "sender"}
    /\ gr = [GameAreaSizeX |-> 60, GameAreaSizeY |-> 50]
    /\ los = LosIdle
    /\ tour = TourIdle
    /\ call = CallIdle
    /\ hid = <<>>
    /\ search = SearchIdle
    /\ buffer = BufferIdle
    /\ manager = ManagerIdle

NextMove ==
    \/ \E p \in Paths, ms \in WalkDurations : MoveThroughPathCall(p, ms)
    \/ \E ok \in BOOLEAN : SelectRightSkillReturn(ok)
    \/ \E ok \in BOOLEAN : TeleportReturn(ok)
    \/ PlannerReturn

SpecMove == InitMove /\ [][NextMove]_vars

(***************************************************************************)
(* Properties of MoveThroughPath                                           *)
(***************************************************************************)
Sent(op) == {i \in 1..Len(hid) : hid[i].op = op}

\* The movement commands of the log: clicks, key presses, protocol teleports
MoveCommands == Sent("Click") \cup Sent("PressKeyBinding") \cup Sent("Teleport")

MoveCall == call.op = "MoveThroughPath"

MoveDone == MoveCall /\ call.pc = "done"

\* The point the call has chosen and its world position
Chosen == call.path[call.sel + 1]

ChosenWorld == Pos(Chosen.X + data.AreaOrigin.X, Chosen.Y + data.AreaOrigin.Y)

ChosenScreen ==
    gameCoordsToScreenCords(From(call.path).X, From(call.path).Y, Chosen.X, Chosen.Y)

\* A position within t units of an edge of the area rectangle, or outside it
WithinOfEdge(pos, t) ==
    LET g == data.AreaData.Grid
    IN  /\ ~g.nil
        /\ \/ pos.X - g.OffsetX <= t
           \/ g.OffsetX + g.Width - pos.X <= t
           \/ pos.Y - g.OffsetY <= t
           \/ g.OffsetY + g.Height - pos.Y <= t

ClickOnlyArea == data.PlayerUnit.Area \in {"FlayerJungle", "LowerKurast", "RiverOfFlame"}

\* C4: in teleport mode a protocol Teleport is sent (or about to be sent)
\* only if UseForTeleport is set, a packet sender is present, the area is
\* not a mouse-click-only area and the chosen world position is not within
\* 60 units of the area boundary; in every other case the call ends with a
\* right-click at the chosen screen point as its only call.
C4_TeleportOnlyIf ==
    (MoveCall /\ data.CanTeleport /\ call.sel >= 0) =>
        LET allowed == /\ cfg.UseForTeleport /\ packetSender # "nil"
                       /\ ~ClickOnlyArea
                       /\ ~WithinOfEdge(ChosenWorld, 60)
        IN  /\ (Sent("Teleport") # {} \/ call.pc \in {"SelectRightSkill", "Teleport"})
                  => allowed
            /\ ~allowed =>
                  /\ call.pc = "done"
                  /\ hid = <<Click("Right", ChosenScreen.X, ChosenScreen.Y)>>

C4_Witness ==
    /\ MoveDone /\ data.CanTeleport
    /\ \E i \in Sent("Teleport") : hid[i].ok /\ hid[i].x = ChosenWorld.X /\ hid[i].y = ChosenWorld.Y

\* C5: with teleport available, protocol teleport enabled and a sender
\* present, a chosen point whose world position is within 60 units of an
\* edge of the area rectangle (60 units included, and outside the rectangle)
\* is cast on with the simulated right-click and no Teleport is sent.
C5_NearBoundaryClicks ==
    (MoveCall /\ data.CanTeleport /\ cfg.UseForTeleport /\ packetSender # "nil"
        /\ call.sel >= 0 /\ WithinOfEdge(ChosenWorld, 60)) =>
        /\ call.pc = "done"
        /\ Sent("Teleport") = {}
        /\ hid = <<Click("Right", ChosenScreen.X, ChosenScreen.Y)>>

\* The chosen point is exactly 60 units from the left edge, in an area where
\* protocol teleport is otherwise used.
C5_Witness ==
    /\ MoveDone /\ data.CanTeleport /\ cfg.UseForTeleport /\ packetSender # "nil"
    /\ ~ClickOnlyArea /\ call.sel >= 0 /\ ~data.AreaData.Grid.nil
    /\ ChosenWorld.X - data.AreaData.Grid.OffsetX = 60
    /\ ~WithinOfEdge(ChosenWorld, 59)
    /\ hid = <<Click("Right", ChosenScreen.X, ChosenScreen.Y)>>

\* C6: when Teleport returns an error, the same call makes a right-click at
\* the screen coordinates chosen for the cast, as its last call, and ends
\* normally.
C6_FallbackClick ==
    \A i \in Sent("Teleport") :
        ~hid[i].ok =>
            /\ MoveDone
            /\ Len(hid) = i + 1
            /\ hid[i + 1] = Click("Right", ChosenScreen.X, ChosenScreen.Y)

C6_Witness ==
    /\ MoveDone
    /\ \E i \in Sent("Teleport") : ~hid[i].ok /\ hid[Len(hid)].op = "Click"

\* C8 as stated: a call on a non-empty path dispatches exactly one movement
\* command (a click, a force-move key press or a protocol teleport).  It
\* fails when Teleport returns an error: the call has then dispatched the
\* teleport and the right-click.
C8_ExactlyOneCommand ==
    (MoveDone /\ Len(call.path) >= 1) => Cardinality(MoveCommands) = 1

\* C8 as amended: a call on a non-empty path ends with exactly one movement
\* command that took effect (a click, a force-move key press or a protocol
\* teleport that returned no error); it dispatches a second command only
\* when the protocol teleport returned an error, which the right-click then
\* follows.
C8_OneEffectiveCommand ==
    (MoveDone /\ Len(call.path) >= 1) =>
        LET failed == {i \in Sent("Teleport") : ~hid[i].ok}
        IN  /\ Cardinality(MoveCommands \ failed) = 1
            /\ Cardinality(failed) <= 1
            /\ \A i \in failed : hid[i + 1].op = "Click" /\ hid[i + 1].button = "Right"

C8_Witness ==
    /\ MoveDone /\ Len(call.path) >= 1
    /\ Cardinality(MoveCommands) = 2
    /\ \E i \in Sent("Teleport") : ~hid[i].ok

\* The distance budget of a walk of ms milliseconds: floor(25 * seconds)
Budget(ms) == (25 * ms) \div 1000

WalkDone == MoveDone /\ ~data.CanTeleport /\ Len(call.path) >= 1

\* C9 as stated: the index of the clicked point never exceeds the budget,
\* for every walk duration.  It fails for a duration whose budget is 0.
C9_WithinBudget ==
    WalkDone => call.sel <= Budget(call.walkDuration)

\* C9 as amended: when the budget floor(25 * walkDuration) is at least 1, the
\* index of the clicked point never exceeds it; a budget of 0 or less puts no
\* limit on the index.
C9_WithinPositiveBudget ==
    WalkDone =>
        /\ Budget(call.walkDuration) >= 1 => call.sel <= Budget(call.walkDuration)
        /\ \E i \in Sent("MovePointer") : hid[i].x = call.screen.X /\ hid[i].y = call.screen.Y
        /\ call.sel >= 0 /\ call.screen = ChosenScreen

\* The budget decides: the point after the clicked one is inside the window
\* and above the HUD line, and beyond the budget.
C9_Witness ==
    /\ WalkDone /\ Budget(call.walkDuration) = 1 /\ call.sel = 1
    /\ Len(call.path) >= 3
    /\ LET sc == gameCoordsToScreenCords(From(call.path).X, From(call.path).Y,
                                         call.path[3].X, call.path[3].Y)
       IN  sc.X >= 0 /\ sc.X <= gr.GameAreaSizeX /\ sc.Y >= 0 /\ sc.Y * 119 <= gr.GameAreaSizeY * 100

\* Point i (from 0) of the path projects at or above the HUD line
\* (screenY <= height / 1.19) and inside the window
OnScreen(i) ==
    LET sc == gameCoordsToScreenCords(From(call.path).X, From(call.path).Y,
                                      call.path[i + 1].X, call.path[i + 1].Y)
    IN  /\ sc.Y * 119 <= gr.GameAreaSizeY * 100
        /\ sc.X >= 0 /\ sc.Y >= 0
        /\ sc.X <= gr.GameAreaSizeX /\ sc.Y <= gr.GameAreaSizeY

\* The last index of the longest prefix of the path whose points all satisfy Q
PrefixEnd(Q(_)) ==
    CHOOSE k \in -1..(Len(call.path) - 1) :
        /\ \A i \in 0..k : Q(i)
        /\ k + 1 <= Len(call.path) - 1 => ~Q(k + 1)

\* C10 as stated: the clicked point ends the longest prefix whose points are
\* all within the budget, at or above the HUD line and inside the window.
\* It fails for a duration whose budget is 0.
C10_LongestPrefix ==
    WalkDone =>
        LET Q(i) == i <= Budget(call.walkDuration) /\ OnScreen(i)
        IN  call.sel = PrefixEnd(Q)

\* C10 as amended: the clicked point ends the longest prefix of the path
\* whose points are all at or above the HUD line, inside the window and,
\* when the budget is at least 1, within the budget; scanning stops at the
\* first violating point, so a qualifying point after it is never chosen.
C10_LongestPrefixPositiveBudget ==
    WalkDone =>
        LET Q(i) == (Budget(call.walkDuration) >= 1 => i <= Budget(call.walkDuration))
                    /\ OnScreen(i)
        IN  /\ call.sel = PrefixEnd(Q)
            /\ call.screen = ChosenScreen

\* A qualifying point comes after the first violating point and is not chosen.
C10_Witness ==
    /\ WalkDone /\ Len(call.path) >= 3
    /\ call.sel = 0 /\ ~OnScreen(1) /\ OnScreen(2)
    /\ Budget(call.walkDuration) >= 2

\* C11: in the teleport strategy the cast goes to the path point with the
\* greatest index whose projection lies inside the window and at or above
\* the HUD line; a point nearer the origin is never chosen when a point
\* further along the path qualifies.
C11_FurthestOnScreen ==
    (MoveCall /\ data.CanTeleport /\ Len(call.path) >= 1) =>
        /\ call.sel >= 0 /\ OnScreen(call.sel)
        /\ \A i \in 0..(Len(call.path) - 1) : OnScreen(i) => i <= call.sel
        /\ call.screen = ChosenScreen
        /\ \A i \in Sent("Click") : hid[i].x = ChosenScreen.X /\ hid[i].y = ChosenScreen.Y
        /\ \A i \in Sent("Teleport") : hid[i].x = ChosenWorld.X /\ hid[i].y = ChosenWorld.Y
        /\ call.pc = "done" => Sent("Click") \cup Sent("Teleport") # {}

\* The chosen point comes after a point that does not qualify, and the
\* point of the path after the chosen one does not qualify either.
C11_Witness ==
    /\ MoveDone /\ data.CanTeleport /\ Len(call.path) >= 3
    /\ call.sel = 1 /\ OnScreen(0) /\ OnScreen(1) /\ ~OnScreen(2)
    /\ Sent("Click") # {}

\* C12: MoveThroughPath uses the teleport strategy (a right-click or a
\* protocol teleport, never a left click, a pointer move or a force-move
\* key press) exactly when the snapshot can teleport, and the walk strategy
\* (never a right-click or a call on the packet sender) otherwise.
C12_StrategyByCapability ==
    MoveCall =>
        /\ data.CanTeleport =>
              /\ Sent("MovePointer") \cup Sent("PressKeyBinding") = {}
              /\ \A i \in Sent("Click") : hid[i].button = "Right"
              /\ (call.pc = "done" /\ Len(call.path) >= 1) =>
                    Sent("Click") \cup Sent("Teleport") # {}
        /\ ~data.CanTeleport =>
              /\ call.pc = "done"
              /\ Sent("Teleport") \cup Sent("SelectRightSkill") = {}
              /\ \A i \in Sent("Click") : hid[i].button = "Left"
              /\ Sent("MovePointer") # {}
              /\ Sent("Click") \cup Sent("PressKeyBinding") # {}

\* A call of a snapshot that can teleport has ended with a right-click.
C12_Witness ==
    /\ MoveDone /\ data.CanTeleport /\ Len(call.path) >= 1
    /\ hid = <<Click("Right", ChosenScreen.X, ChosenScreen.Y)>>

\* C14 as stated: when protocol skill selection is configured and the right
\* skill is not Teleport, a teleport-strategy call issues the skill-select
\* command before its cast (protocol teleport or simulated right-click).
\* It fails when the cast is the simulated right-click from the start.
C14_SelectBeforeCast ==
    (MoveCall /\ data.CanTeleport /\ cfg.UseForSkillSelection
        /\ data.PlayerUnit.RightSkill # "Teleport") =>
        \A i \in Sent("Click") \cup Sent("Teleport") :
            \E j \in Sent("SelectRightSkill") : j < i

\* C15: when the protocol Teleport returns no error the call makes no
\* click and ends with a settle delay of the estimated cast duration.
C15_SettleAfterTeleport ==
    \A i \in Sent("Teleport") :
        hid[i].ok =>
            /\ MoveDone
            /\ Sent("Click") = {}
            /\ Len(hid) = i + 1
            /\ hid[i + 1] = Sleep(data.PlayerCastDuration)

C15_Witness ==
    /\ MoveDone /\ data.PlayerCastDuration > 0
    /\ \E i \in Sent("Teleport") : hid[i].ok /\ hid[Len(hid)].op = "Sleep"

(***************************************************************************)
(* DirectionalMovement                                                     *)
(***************************************************************************)
\* The 8 directions N, NE, E, SE, S, SW, W, NW, 5 units each
directions ==
    <<[dx |-> 0, dy |-> -5], [dx |-> 5, dy |-> -5], [dx |-> 5, dy |-> 0],
      [dx |-> 5, dy |-> 5], [dx |-> 0, dy |-> 5], [dx |-> -5, dy |-> 5],
      [dx |-> -5, dy |-> 0], [dx |-> -5, dy |-> -5]>>

\* rand.Shuffle: the orders the runs draw from, the rotations of the list
\* and of its reverse (every direction comes first in some order)
Shuffles ==
    {[i \in 1..8 |-> directions[((k + s * (i - 1)) % 8) + 1]] : k \in 0..7, s \in {1, 7}}

\* attemptMove(targetPos, checkWalkable): whether a movement was made, and
\* the calls made
attemptMove(d, targetPos, checkWalkable) ==
    LET sc == gameCoordsToScreenCords(d.PlayerUnit.Position.X, d.PlayerUnit.Position.Y,
                                      targetPos.X, targetPos.Y)
    IN  IF checkWalkable /\ ~IsWalkable(d.AreaData.Grid, targetPos)
        THEN [ok |-> FALSE, events |-> <<>>]
        ELSE IF \/ sc.X <= 50 \/ sc.X >= gr.GameAreaSizeX - 50
                \/ sc.Y <= 50 \/ sc.Y >= HudBoundaryOf[gr.GameAreaSizeY]
        THEN [ok |-> FALSE, events |-> <<>>]
        ELSE [ok |-> TRUE,
              events |-> <<MovePointer(sc.X, sc.Y)>>
                         \o (IF IsTown(d.PlayerUnit.Area) THEN <<Click("Left", sc.X, sc.Y)>>
                             ELSE pressForceMove(d, sc.X, sc.Y))
                         \o <<Sleep(150)>>]

\* One pass over the shuffled directions from index i on: the first
\* direction whose attempt succeeds
RECURSIVE TryDirections(_, _, _, _, _)
TryDirections(d, dirs, i, radius, checkWalkable) ==
    IF i > Len(dirs) THEN [ok |-> FALSE, events |-> <<>>]
    ELSE LET targetPos == Pos(d.PlayerUnit.Position.X + dirs[i].dx * radius,
                              d.PlayerUnit.Position.Y + dirs[i].dy * radius)
             r == attemptMove(d, targetPos, checkWalkable)
         IN  IF r.ok THEN r
             ELSE TryDirections(d, dirs, i + 1, radius, checkWalkable)

\* Mutant: the last resort is tried before the second pass.
ThreePassesLastResortFirst(d, dirs) ==
    IF TryDirections(d, dirs, 1, 1, TRUE).ok THEN TryDirections(d, dirs, 1, 1, TRUE)
    ELSE IF TryDirections(d, dirs, 1, 1, FALSE).ok THEN TryDirections(d, dirs, 1, 1, FALSE)
    ELSE TryDirections(d, dirs, 1, 2, TRUE)

\* The three passes of DirectionalMovement
ThreePasses(d, dirs) ==
    IF TryDirections(d, dirs, 1, 1, TRUE).ok THEN TryDirections(d, dirs, 1, 1, TRUE)
    ELSE IF TryDirections(d, dirs, 1, 2, TRUE).ok THEN TryDirections(d, dirs, 1, 2, TRUE)
    ELSE TryDirections(d, dirs, 1, 1, FALSE)

\* Mutant: the passes are run without the check for a missing grid.
DirectionalMovementNoGuard(d, dirs) ==
    ThreePasses(d, dirs)

DirectionalMovement(d, dirs) ==
    IF d.AreaData.Grid.nil \/ d.AreaData.Grid.CollisionGrid.nil
    THEN [ok |-> FALSE, events |-> <<>>]
    ELSE ThreePasses(d, dirs)

DirectionalMovementCall(dirs) ==
    /\ call.pc = "idle"
    /\ \E r \in {DirectionalMovement(data, dirs)} :
           /\ call' = [CallIdle EXCEPT !.pc = "done", !.op = "DirectionalMovement",
                                       !.ret = r.ok, !.dirs = dirs]
           /\ hid' = r.events
    /\ UNCHANGED <<search, buffer, manager, data, cfg, gr, packetSender, los, tour>>

(***************************************************************************)
(* RandomMovement                                                          *)
(***************************************************************************)
\* The random click of RandomMovement at (x, y)
RandomClick(d, x, y) ==
    <<MovePointer(x, y)>>
    \o (IF IsTown(d.PlayerUnit.Area) THEN <<Click("Left", x, y)>>
        ELSE pressForceMove(d, x, y))
    \o <<Sleep(100)>>

\* The point of the random click for the draws rx = rand.Intn(midGameX) and
\* ry = rand.Intn(midGameY)
RandomPoint(rx, ry) ==
    LET midGameX == gr.GameAreaSizeX \div 2
        midGameY == gr.GameAreaSizeY \div 2
    IN  Pos(midGameX + rx - (midGameX \div 2), midGameY + ry - (midGameY \div 2))

\* Mutant: the random click is made after a directional move as well.
RandomMovementBoth(d, dirs, rx, ry) ==
    [directional |-> DirectionalMovement(d, dirs).ok,
     point |-> RandomPoint(rx, ry),
     events |-> DirectionalMovement(d, dirs).events
                \o RandomClick(d, RandomPoint(rx, ry).X, RandomPoint(rx, ry).Y)]

\* RandomMovement: whether the directional move was made, the random point
\* and the calls made
RandomMovement(d, dirs, rx, ry) ==
    IF DirectionalMovement(d, dirs).ok
    THEN [directional |-> TRUE, point |-> Pos(0, 0),
          events |-> DirectionalMovement(d, dirs).events]
    ELSE [directional |-> FALSE, point |-> RandomPoint(rx, ry),
          events |-> RandomClick(d, RandomPoint(rx, ry).X, RandomPoint(rx, ry).Y)]

\* The draws of rand.Intn(n) that the runs take: the least, the middle and
\* the greatest value of 0..n-1
RandomDraws(n) == {0, n \div 2, n - 1}

RandomMovementCall(dirs, rx, ry) ==
    /\ call.pc = "idle"
    /\ \E r \in {RandomMovement(data, dirs, rx, ry)} :
           /\ call' = [CallIdle EXCEPT !.pc = "done", !.op = "RandomMovement",
                                       !.ret = r.directional, !.dirs = dirs,
                                       !.random = r.point]
           /\ hid' = r.events
    /\ UNCHANGED <<search, buffer, manager, data, cfg, gr, packetSender, los, tour>>

\* The player stands at (10, 10) of a 21 x 21 area; the walkable cells are
\* none, single targets of the first and of the second pass, or all cells.
\* In the window of 900 x 240 the targets N, NE, E, S, SW, W at radius 5 and
\* NE, SW at radius 10 pass the screen bounds; in the window of 60 x 50 no
\* target does.
FallbackPosition == Pos(10, 10)

FallbackWalkable ==
    {{}, {<<10, 5>>}, {<<15, 15>>}, {<<5, 5>>, <<15, 10>>}, {<<20, 0>>}, {<<10, 20>>},
     {<<10, 0>>, <<20, 20>>}, (0..20) \X (0..20)}

\* The grids: no grid, a grid without collision flags, and grids with them
FallbackGrids ==
    {NilGrid, [MkGrid(0, 0, 21, 21, {}) EXCEPT !.CollisionGrid.nil = TRUE]}
    \cup {MkGrid(0, 0, 21, 21, cells) : cells \in FallbackWalkable}

FallbackSnapshots ==
    {[DefaultData EXCEPT !.AreaData.Grid = g,
                         !.PlayerUnit.Position = FallbackPosition,
                         !.PlayerUnit.Area = a,
                         !.KeyBindings.ForceMove = kb] :
        g \in FallbackGrids, a \in {"RogueEncampment", "BloodMoor"},
        kb \in ForceMoveBindings}

InitFallback ==
    /\ data \in FallbackSnapshots
    /\ cfg = DefaultCfg
    /\ gr \in {[GameAreaSizeX |-> 60, GameAreaSizeY |-> 50],
               [GameAreaSizeX |-> 900, GameAreaSizeY |-> 240]}
    /\ packetSender = "nil"
    /\ los = LosIdle
    /\ tour = TourIdle
    /\ call = CallIdle
    /\ hid = <<>>
    /\ search = SearchIdle
    /\ buffer = BufferIdle
    /\ manager = ManagerIdle

NextFallback ==
    \/ \E dirs \in Shuffles : DirectionalMovementCall(dirs)
    \/ \E dirs \in Shuffles, rx \in RandomDraws(gr.GameAreaSizeX \div 2),
          ry \in RandomDraws(gr.GameAreaSizeY \div 2) :
             RandomMovementCall(dirs, rx, ry)
    \/ \E p \in Paths, ms \in WalkDurations : MoveThroughPathCall(p, ms)
    \/ PlannerReturn

SpecFallback == InitFallback /\ [][NextFallback]_vars

\* C7: when the grid of the snapshot or its collision data is missing,
\* DirectionalMovement returns false and has made no call on the input
\* dispatcher: no pointer move, no click, no key press.
C7_NilGridNoInput ==
    (call.op = "DirectionalMovement" /\ call.pc = "done"
        /\ (data.AreaData.Grid.nil \/ data.AreaData.Grid.CollisionGrid.nil)) =>
        /\ call.ret = FALSE
        /\ hid = <<>>

\* The call has returned false for a grid that has no collision data.
C7_Witness ==
    /\ call.op = "DirectionalMovement" /\ call.pc = "done"
    /\ ~data.AreaData.Grid.nil /\ data.AreaData.Grid.CollisionGrid.nil
    /\ call.ret = FALSE /\ hid = <<>>

\* The calls of the walk strategy and of the two fallbacks that have ended
\* with a move
GroundMove ==
    /\ call.pc = "done" /\ ~data.CanTeleport
    /\ call.op \in {"MoveThroughPath", "DirectionalMovement", "RandomMovement"}
    /\ hid # <<>>

\* The force-move binding in effect is a mouse button
ForceMoveOnMouse ==
    LET fm == data.KeyBindings.ForceMove
        key == IF fm.Key1 \in {0, 255} THEN fm.Key2 ELSE fm.Key1
    IN  key \in {1, 2, 4, 5, 6}

\* C13 as stated: in the walk strategy and in both fallbacks, a move in a
\* town is a left click at the target point without a press of the
\* force-move binding, and a move outside a town is the pointer move
\* followed by the press of the force-move binding, never a click.  It
\* fails outside a town when force-move is bound to a mouse button.
C13_TownClickFieldForceMove ==
    GroundMove =>
        /\ hid[1].op = "MovePointer" /\ Len(hid) = 3
        /\ IsTown(data.PlayerUnit.Area) =>
              /\ hid[2] = Click("Left", hid[1].x, hid[1].y)
              /\ Sent("PressKeyBinding") = {}
        /\ ~IsTown(data.PlayerUnit.Area) =>
              /\ hid[2] = PressKeyBinding("ForceMove")
              /\ Sent("Click") = {}

\* C13 as amended: a move in a town is a left click at the target point and
\* the force-move binding is never pressed; a move outside a town is the
\* pointer move followed by the press of the force-move binding when that
\* is bound to a keyboard key, and by a left click at the target point when
\* it is bound to a mouse button (virtual keys 1, 2, 4, 5, 6).
C13_ForceMoveUnlessMouseBound ==
    GroundMove =>
        /\ hid[1].op = "MovePointer" /\ Len(hid) = 3
        /\ hid[3].op = "Sleep"
        /\ IsTown(data.PlayerUnit.Area) =>
              hid[2] = Click("Left", hid[1].x, hid[1].y)
        /\ (~IsTown(data.PlayerUnit.Area) /\ ~ForceMoveOnMouse) =>
              hid[2] = PressKeyBinding("ForceMove")
        /\ (~IsTown(data.PlayerUnit.Area) /\ ForceMoveOnMouse) =>
              hid[2] = Click("Left", hid[1].x, hid[1].y)

\* Outside a town, with force-move on a mouse button, the directional
\* fallback has made a left click.
C13_Witness ==
    /\ GroundMove /\ call.op = "DirectionalMovement"
    /\ ~IsTown(data.PlayerUnit.Area) /\ ForceMoveOnMouse
    /\ hid[2].op = "Click" /\ hid[2].button = "Left"

\* The target of direction k of the shuffled list at the given radius
\* (1: 5 units, 2: 10 units) and the two filters
FallbackTarget(k, radius) ==
    Pos(data.PlayerUnit.Position.X + call.dirs[k].dx * radius,
        data.PlayerUnit.Position.Y + call.dirs[k].dy * radius)

FallbackScreen(k, radius) ==
    gameCoordsToScreenCords(data.PlayerUnit.Position.X, data.PlayerUnit.Position.Y,
                            FallbackTarget(k, radius).X, FallbackTarget(k, radius).Y)

InScreenBounds(k, radius) ==
    /\ FallbackScreen(k, radius).X > 50
    /\ FallbackScreen(k, radius).X < gr.GameAreaSizeX - 50
    /\ FallbackScreen(k, radius).Y > 50
    /\ FallbackScreen(k, radius).Y < HudBoundaryOf[gr.GameAreaSizeY]

WalkableTarget(k, radius) == IsWalkable(data.AreaData.Grid, FallbackTarget(k, radius))

\* The candidates that pass in each of the three passes
Pass1 == {k \in 1..8 : WalkableTarget(k, 1) /\ InScreenBounds(k, 1)}

Pass2 == {k \in 1..8 : WalkableTarget(k, 2) /\ InScreenBounds(k, 2)}

Pass3 == {k \in 1..8 : InScreenBounds(k, 1)}

Least(S) == CHOOSE k \in S : \A j \in S : k <= j

\* The screen point of the first candidate that passes, in pass order
FirstPassing ==
    IF Pass1 # {} THEN FallbackScreen(Least(Pass1), 1)
    ELSE IF Pass2 # {} THEN FallbackScreen(Least(Pass2), 2)
    ELSE FallbackScreen(Least(Pass3), 1)

GridPresent == ~data.AreaData.Grid.nil /\ ~data.AreaData.Grid.CollisionGrid.nil

RandomClicked == \E i \in Sent("Sleep") : hid[i].x = 100

\* C17: RandomMovement clicks a random point only if DirectionalMovement
\* returned false in the same call; the point lies in the inner half of the
\* window (width/4 <= x < 3 width/4 and height/4 <= y < 3 height/4, to
\* within one unit of integer rounding); a call never makes both a
\* directional and a random move.
C17_RandomOnlyAfterDirectionalFails ==
    (call.op = "RandomMovement" /\ call.pc = "done") =>
        /\ Cardinality(Sent("MovePointer")) = 1
        /\ Cardinality(MoveCommands) = 1
        /\ RandomClicked <=> ~call.ret
        /\ RandomClicked =>
              /\ ~GridPresent \/ Pass1 \cup Pass2 \cup Pass3 = {}
              /\ hid[1] = MovePointer(call.random.X, call.random.Y)
              /\ 4 * call.random.X > gr.GameAreaSizeX - 4
              /\ 4 * call.random.X < 3 * gr.GameAreaSizeX + 4
              /\ 4 * call.random.Y > gr.GameAreaSizeY - 4
              /\ 4 * call.random.Y < 3 * gr.GameAreaSizeY + 4
        /\ ~RandomClicked =>
              hid[1] = MovePointer(FirstPassing.X, FirstPassing.Y)

\* With a collision grid, no candidate has passed and the random click went
\* to the greatest point the draws allow.
C17_Witness ==
    /\ call.op = "RandomMovement" /\ call.pc = "done" /\ GridPresent
    /\ RandomClicked /\ ~call.ret
    /\ call.random = Pos(gr.GameAreaSizeX \div 2 + (gr.GameAreaSizeX \div 2 - 1)
                             - (gr.GameAreaSizeX \div 2) \div 2,
                         gr.GameAreaSizeY \div 2 + (gr.GameAreaSizeY \div 2 - 1)
                             - (gr.GameAreaSizeY \div 2) \div 2)

(***************************************************************************)
(* HasDoorBetween and GetClosestDoor                                       *)
(***************************************************************************)
\* utils.CalculateDistance(p, q) is the square root of this sum; two
\* distances compare as their squares do, and a distance is below 5.0
\* exactly when its square is below 25
DistanceSquared(p, q) == (p.X - q.X) * (p.X - q.X) + (p.Y - q.Y) * (p.Y - q.Y)

\* Path.Intersects(data, position, padding): some point of the path (which
\* is relative to the area origin) is within padding units of the position
Intersects(p, d, position, padding) ==
    LET rel == Pos(position.X - d.AreaOrigin.X, position.Y - d.AreaOrigin.Y)
    IN  \E i \in 1..Len(p) : DistanceSquared(p[i], rel) <= padding * padding

\* Mutant: the first door in the vicinity is kept, a nearer one is not taken.
RECURSIVE ClosestDoorScanFirst(_, _, _, _, _)
ClosestDoorScanFirst(objects, position, i, minSquared, closestObject) ==
    IF i > Len(objects) THEN closestObject
    ELSE LET o == objects[i]
             dist == DistanceSquared(position, o.Position)
         IN  IF o.IsDoor /\ o.Selectable /\ dist < 25 /\ closestObject.nil
             THEN ClosestDoorScanFirst(objects, position, i + 1, dist, o)
             ELSE ClosestDoorScanFirst(objects, position, i + 1, minSquared, closestObject)

\* The loop of GetClosestDoor from object i on; minSquared is the square of
\* minDistance, closestObject points to the object of the iteration that
\* set it
RECURSIVE ClosestDoorScan(_, _, _, _, _)
ClosestDoorScan(objects, position, i, minSquared, closestObject) ==
    IF i > Len(objects) THEN closestObject
    ELSE LET o == objects[i]
             dist == DistanceSquared(position, o.Position)
         IN  IF o.IsDoor /\ o.Selectable /\ dist < 25 /\ dist < minSquared
             THEN ClosestDoorScan(objects, position, i + 1, dist, o)
             ELSE ClosestDoorScan(objects, position, i + 1, minSquared, closestObject)

GetClosestDoor(d, position) ==
    ClosestDoorScan(d.Objects, position, 1, 25, NilObject)

\* The loop of HasDoorBetween over the objects from object i on
RECURSIVE DoorOnPath(_, _, _)
DoorOnPath(d, p, i) ==
    IF i > Len(d.Objects) THEN NilObject
    ELSE IF d.Objects[i].IsDoor /\ d.Objects[i].Selectable
            /\ Intersects(p, d, d.Objects[i].Position, 4)
    THEN d.Objects[i]
    ELSE DoorOnPath(d, p, i + 1)

\* HasDoorBetween, given what GetPathFrom(origin, destination) returned
HasDoorBetween(d, origin, p, pathFound) ==
    IF ~pathFound THEN GetClosestDoor(d, origin)
    ELSE DoorOnPath(d, p, 1)

HasDoorBetweenCall(origin, p, pathFound) ==
    /\ call.pc = "idle"
    /\ \E r \in {HasDoorBetween(data, origin, p, pathFound)} :
           call' = [CallIdle EXCEPT !.pc = "done", !.op = "HasDoorBetween",
                                    !.origin = origin, !.path = p,
                                    !.pathFound = pathFound,
                                    !.ret = ~r.nil, !.door = r]
    /\ hid' = <<>>
    /\ UNCHANGED <<search, buffer, manager, data, cfg, gr, packetSender, los, tour>>

\* The objects of the runs: selectable doors 3 units east and south of the
\* origin (0, 0), 1 unit south, exactly 5 units away and further away, a
\* door that is not selectable and a chest next to the origin
ObjectPool ==
    {Object(1, TRUE, TRUE, 3, 0), Object(2, TRUE, TRUE, 0, 3), Object(3, TRUE, TRUE, 0, 1),
     Object(4, TRUE, TRUE, 3, 4), Object(5, TRUE, FALSE, 1, 1), Object(6, FALSE, TRUE, 1, 0),
     Object(7, TRUE, TRUE, 6, 2)}

ObjectLists == {q \in DistinctSeqs(ObjectPool, MaxObjects) :
                   \A i, j \in 1..Len(q) : i # j => q[i] # q[j]}

\* What GetPathFrom returns: no path, or a path from the origin
DoorOrigins == {Pos(0, 0), Pos(1, 0)}

DoorPaths == {<<Pos(0, 0), Pos(1, 0), Pos(2, 0)>>, <<Pos(1, 0), Pos(2, 1), Pos(3, 2)>>}

InitDoor ==
    /\ \E objs \in ObjectLists : data = [DefaultData EXCEPT !.Objects = objs]
    /\ cfg = DefaultCfg
    /\ gr = DefaultGr
    /\ packetSender = "nil"
    /\ los = LosIdle
    /\ tour = TourIdle
    /\ call = CallIdle
    /\ hid = <<>>
    /\ search = SearchIdle
    /\ buffer = BufferIdle
    /\ manager = ManagerIdle

NextDoor ==
    \/ \E origin \in DoorOrigins : HasDoorBetweenCall(origin, <<>>, FALSE)
    \/ \E p \in DoorPaths : HasDoorBetweenCall(p[1], p, TRUE)
    \/ PlannerReturn

SpecDoor == InitDoor /\ [][NextDoor]_vars

DoorDone == call.op = "HasDoorBetween" /\ call.pc = "done"

\* The selectable doors of the snapshot (as indices of the object list)
SelectableDoors ==
    {i \in 1..Len(data.Objects) : data.Objects[i].IsDoor /\ data.Objects[i].Selectable}

OriginSquared(i) == DistanceSquared(call.origin, data.Objects[i].Position)

\* The path case of C18: the first selectable door in object order that the
\* path passes within 4 units of, or (false, nil) if there is none
DoorOnPathReturned ==
    LET onPath == {i \in SelectableDoors :
                      Intersects(call.path, data, data.Objects[i].Position, 4)}
    IN  IF onPath = {} THEN ~call.ret /\ call.door.nil
        ELSE call.ret /\ call.door = data.Objects[Least(onPath)]

\* The returned object is nil or a selectable door of the snapshot
DoorOrNil ==
    /\ call.ret <=> ~call.door.nil
    /\ call.ret => \E i \in SelectableDoors : call.door = data.Objects[i]

\* C18 as stated: without a path the result is the selectable door nearest
\* to the origin among those within 5 units, (false, nil) if there is
\* none; with a path it is the first selectable door in object order that
\* the path passes within 4 units of, (false, nil) if there is none; no
\* other object is returned.  It fails for a door exactly 5 units away.
C18_NearestWithinFive ==
    DoorDone =>
        /\ DoorOrNil
        /\ call.pathFound => DoorOnPathReturned
        /\ ~call.pathFound =>
              LET near == {i \in SelectableDoors : OriginSquared(i) <= 25}
              IN  IF near = {} THEN ~call.ret
                  ELSE /\ call.ret
                       /\ \E i \in near :
                             /\ call.door = data.Objects[i]
                             /\ \A j \in near : OriginSquared(i) <= OriginSquared(j)

\* C18 as amended: without a path the result is the selectable door nearest
\* to the origin among those less than 5 units away (the first in object
\* order among equally near ones), (false, nil) if there is none; the path
\* case and the exclusion of other objects are as stated.
C18_NearestBelowFive ==
    DoorDone =>
        /\ DoorOrNil
        /\ call.pathFound => DoorOnPathReturned
        /\ ~call.pathFound =>
              LET near == {i \in SelectableDoors : OriginSquared(i) < 25}
              IN  IF near = {} THEN ~call.ret /\ call.door.nil
                  ELSE /\ call.ret
                       /\ \E i \in near :
                             /\ call.door = data.Objects[i]
                             /\ \A j \in near :
                                   \/ OriginSquared(i) < OriginSquared(j)
                                   \/ OriginSquared(i) = OriginSquared(j) /\ i <= j

\* Without a path, the door returned is nearer than a selectable door that
\* comes before it in the object list, and a door exactly 5 units away is
\* in the list.
C18_Witness ==
    /\ DoorDone /\ ~call.pathFound /\ call.ret
    /\ \E i, j, k \in SelectableDoors :
          /\ call.door = data.Objects[j] /\ i < j
          /\ OriginSquared(j) < OriginSquared(i) /\ OriginSquared(i) < 25
          /\ OriginSquared(k) = 25

(***************************************************************************)
(* gameCoordsToScreenCords on its own                                      *)
(***************************************************************************)
GameCoordsToScreenCordsCall(player, destination) ==
    /\ call.pc = "idle"
    /\ call' = [CallIdle EXCEPT
                   !.pc = "done", !.op = "gameCoordsToScreenCords",
                   !.origin = player, !.worldPos = destination,
                   !.screen = gameCoordsToScreenCords(player.X, player.Y,
                                                      destination.X, destination.Y)]
    /\ hid' = <<>>
    /\ UNCHANGED <<search, buffer, manager, data, cfg, gr, packetSender, los, tour>>

\* The player positions and the displacements of the projection runs
ProjectPlayers == {Pos(0, 0), Pos(1, 2), Pos(-2, 1), Pos(3, 3)}

ProjectDisplacements == {Pos(x, y) : x \in -3..3, y \in -3..3}

InitProject ==
    /\ data = DefaultData
    /\ cfg = DefaultCfg
    /\ gr \in WindowSizes
    /\ packetSender = "nil"
    /\ los = LosIdle
    /\ tour = TourIdle
    /\ call = CallIdle
    /\ hid = <<>>
    /\ search = SearchIdle
    /\ buffer = BufferIdle
    /\ manager = ManagerIdle

NextProject ==
    \/ \E player \in ProjectPlayers, disp \in ProjectDisplacements :
          GameCoordsToScreenCordsCall(player, Pos(player.X + disp.X, player.Y + disp.Y))
    \/ PlannerReturn

SpecProject == InitProject /\ [][NextProject]_vars

ProjectDone == call.op = "gameCoordsToScreenCords" /\ call.pc = "done"

\* C20: for every player position and window size the projection of the
\* player's own position is the window centre (width/2, height/2, integer
\* halves), and the projection is a function of the displacement
\* (destination - player) alone.
C20_CentreAndDisplacementOnly ==
    ProjectDone =>
        LET diffX == call.worldPos.X - call.origin.X
            diffY == call.worldPos.Y - call.origin.Y
        IN  /\ (diffX = 0 /\ diffY = 0) =>
                  call.screen = Pos(gr.GameAreaSizeX \div 2, gr.GameAreaSizeY \div 2)
            /\ call.screen = Pos(ProjectAxis(diffX - diffY, 19, gr.GameAreaSizeX \div 2),
                                 ProjectAxis(diffX + diffY, 20, gr.GameAreaSizeY \div 2))

\* A player away from the origin has been projected onto the centre of a
\* window of odd size.
C20_Witness ==
    /\ ProjectDone /\ call.origin = Pos(3, 3) /\ call.worldPos = call.origin
    /\ gr.GameAreaSizeX % 2 = 1
    /\ call.screen = Pos(gr.GameAreaSizeX \div 2, gr.GameAreaSizeY \div 2)

(***************************************************************************)
(* findPath (PathSearch, behind pf.GetPathFrom): an informed search over   *)
(* the 8-connected walkable cells of the grid.  A straight step costs 10   *)
(* and a diagonal step 14; the heuristic is the octile distance.  The      *)
(* frontier node of least cost + heuristic is expanded, ties going to the  *)
(* lowest heuristic and then to the lowest cell in row order.              *)
(***************************************************************************)
SearchSize == 3     \* findPath: the grid has SearchSize x SearchSize cells
MaxWalls == 3       \* findPath: at most this many blocked cells
MaxCalls == 2       \* findPath: calls made on one grid

StraightCost == 10
DiagonalCost == 14

Adjacent(a, b) == a # b /\ Abs(a.X - b.X) <= 1 /\ Abs(a.Y - b.Y) <= 1

\* Mutant of Neighbours: the neighbours are not tested for walkability.
NeighboursAnyCell(g, c) ==
    {n \in {Pos(c.X + i, c.Y + j) : i \in -1..1, j \in -1..1} :
        /\ n # c
        /\ n.X - g.OffsetX \in 0..(g.Width - 1)
        /\ n.Y - g.OffsetY \in 0..(g.Height - 1)}

\* The walkable cells next to c, diagonals included
Neighbours(g, c) ==
    {n \in {Pos(c.X + i, c.Y + j) : i \in -1..1, j \in -1..1} :
        n # c /\ IsWalkable(g, n)}

StepCost(a, b) == IF a.X = b.X \/ a.Y = b.Y THEN StraightCost ELSE DiagonalCost

\* The octile distance
Heuristic(c, destination) ==
    LET ax == Abs(c.X - destination.X)
        ay == Abs(c.Y - destination.Y)
        lo == IF ax < ay THEN ax ELSE ay
    IN  StraightCost * (ax + ay) - (2 * StraightCost - DiagonalCost) * lo

\* The deterministic visitation order: rows first
Rank(g, c) == (c.Y - g.OffsetY) * g.Width + (c.X - g.OffsetX)

\* a is expanded before b
Before(g, f, a, b) ==
    LET fa == f.g[a] + Heuristic(a, f.destination)
        fb == f.g[b] + Heuristic(b, f.destination)
        ha == Heuristic(a, f.destination)
        hb == Heuristic(b, f.destination)
    IN  \/ fa < fb
        \/ fa = fb /\ ha < hb
        \/ fa = fb /\ ha = hb /\ Rank(g, a) <= Rank(g, b)

Best(g, f) == CHOOSE a \in f.open : \A b \in f.open : Before(g, f, a, b)

\* The path from the origin to c along the parent links
RECURSIVE ReconstructPath(_, _)
ReconstructPath(f, c) ==
    IF c = f.origin THEN <<c>> ELSE Append(ReconstructPath(f, f.parent[c]), c)

\* The frame at the entry of findPath
findPathEntry(f, origin, destination) ==
    [f EXCEPT !.pc = "run", !.origin = origin, !.destination = destination,
              !.open = {origin}, !.closed = {},
              !.g = [c \in {origin} |-> 0], !.parent = [c \in {origin} |-> origin],
              !.steps = 0, !.found = FALSE, !.path = <<>>, !.calls = @ + 1,
              !.prev = IF f.pc = "done"
                       THEN <<[origin |-> f.origin, destination |-> f.destination,
                               found |-> f.found, path |-> f.path]>>
                       ELSE f.prev]

\* The nodes that the expansion of cur opens or improves
Improved(g, f, cur) ==
    {n \in Neighbours(g, cur) \ f.closed :
        n \notin f.open \/ f.g[cur] + StepCost(cur, n) < f.g[n]}

\* One step of the search: no frontier left, destination reached, or one
\* node expanded
findPathStep(g, f) ==
    IF f.open = {}
    THEN [f EXCEPT !.pc = "done", !.found = FALSE, !.path = <<>>]
    ELSE IF Best(g, f) = f.destination
    THEN [f EXCEPT !.pc = "done", !.found = TRUE,
                   !.path = ReconstructPath(f, f.destination)]
    ELSE [f EXCEPT
            !.open = (@ \ {Best(g, f)}) \cup Improved(g, f, Best(g, f)),
            !.closed = @ \cup {Best(g, f)},
            !.g = [c \in DOMAIN f.g \cup Improved(g, f, Best(g, f)) |->
                     IF c \in Improved(g, f, Best(g, f))
                     THEN f.g[Best(g, f)] + StepCost(Best(g, f), c)
                     ELSE f.g[c]],
            !.parent = [c \in DOMAIN f.parent \cup Improved(g, f, Best(g, f)) |->
                     IF c \in Improved(g, f, Best(g, f))
                     THEN Best(g, f)
                     ELSE f.parent[c]],
            !.steps = @ + 1]

FindPathCall(origin, destination) ==
    /\ search.pc \in {"idle", "done"}
    /\ search.calls < MaxCalls
    /\ search' = findPathEntry(search, origin, destination)
    /\ UNCHANGED <<buffer, manager, data, cfg, gr, packetSender, los, tour, call, hid>>

FindPathStep ==
    /\ search.pc = "run"
    /\ search' = findPathStep(data.AreaData.Grid, search)
    /\ UNCHANGED <<buffer, manager, data, cfg, gr, packetSender, los, tour, call, hid>>

SearchCells == {<<x, y>> : x \in 0..(SearchSize - 1), y \in 0..(SearchSize - 1)}

\* The blocked cells are drawn from the middle column and the middle row
WallCells == {c \in SearchCells : c[1] = 1 \/ c[2] = 1}

SearchGrids ==
    {MkGrid(0, 0, SearchSize, SearchSize, SearchCells \ b) :
        b \in {c \in SUBSET WallCells : Cardinality(c) <= MaxWalls}}

SearchOrigins == {Pos(0, 0), Pos(1, 1)}

SearchDestinations ==
    {Pos(0, 0), Pos(SearchSize - 1, 0), Pos(0, SearchSize - 1),
     Pos(SearchSize - 1, SearchSize - 1)}

InitSearch ==
    /\ \E g \in SearchGrids : data = [DefaultData EXCEPT !.AreaData.Grid = g]
    /\ cfg = DefaultCfg
    /\ gr = DefaultGr
    /\ packetSender = "nil"
    /\ los = LosIdle
    /\ tour = TourIdle
    /\ call = CallIdle
    /\ hid = <<>>
    /\ search = SearchIdle
    /\ buffer = BufferIdle
    /\ manager = ManagerIdle

NextSearch ==
    \/ \E origin \in SearchOrigins, destination \in SearchDestinations :
          FindPathCall(origin, destination)
    \/ FindPathStep

SpecSearch == InitSearch /\ [][NextSearch]_vars

\* The walkable cells that can be reached from the cells of S
GridCells(g) ==
    {Pos(g.OffsetX + x, g.OffsetY + y) : x \in 0..(g.Width - 1), y \in 0..(g.Height - 1)}

NextTo(g, S) == {n \in GridCells(g) : IsWalkable(g, n) /\ \E c \in S : Adjacent(c, n)}

RECURSIVE Region(_, _)
Region(g, S) ==
    IF NextTo(g, S) \subseteq S THEN S ELSE Region(g, S \cup NextTo(g, S))

SameRegion(g, a, b) == IsWalkable(g, a) /\ IsWalkable(g, b) /\ b \in Region(g, {a})

DisconnectedRegions(g, a, b) ==
    IsWalkable(g, a) /\ IsWalkable(g, b) /\ b \notin Region(g, {a})

SearchDone == search.pc = "done"

BeyondMax == 3            \* BeyondPosition: coordinates range over 0..BeyondMax
BeyondDistanceMax == 5    \* BeyondPosition: distances range over -1..BeyondDistanceMax

\* int(d / length * float64(distance)) for length = sqrt(d*d + o*o) > 0:
\* the quotient d * distance / length truncated toward zero
Extend(d, o, distance) ==
    LET a == Abs(d * distance)
        k == CHOOSE n \in 0..a :
                /\ n * n * (d * d + o * o) <= a * a
                /\ (n + 1) * (n + 1) * (d * d + o * o) > a * a
    IN  IF d * distance >= 0 THEN k ELSE -k

\* Mutant of BeyondPosition: identical positions keep the zero direction.
BeyondPositionNoDirection(start, target, distance) ==
    IF start = target
    THEN target
    ELSE Pos(target.X + Extend(target.X - start.X, target.Y - start.Y, distance),
             target.Y + Extend(target.Y - start.Y, target.X - start.X, distance))

BeyondPosition(start, target, distance) ==
    IF (target.X - start.X) * (target.X - start.X)
          + (target.Y - start.Y) * (target.Y - start.Y) = 0
    THEN Pos(target.X + 1 * distance, target.Y + 0 * distance)
    ELSE Pos(target.X + Extend(target.X - start.X, target.Y - start.Y, distance),
             target.Y + Extend(target.Y - start.Y, target.X - start.X, distance))

BeyondPositionCall(start, target, distance) ==
    /\ call.pc = "idle"
    /\ call' = [CallIdle EXCEPT !.pc = "done", !.op = "BeyondPosition",
                                !.start = start, !.target = target,
                                !.distance = distance,
                                !.beyond = BeyondPosition(start, target, distance)]
    /\ UNCHANGED <<search, buffer, manager, data, cfg, gr, packetSender, los, tour, hid>>

BeyondPoints == {Pos(x, y) : x \in 0..BeyondMax, y \in 0..BeyondMax}

BeyondDistances == -1..BeyondDistanceMax

InitBeyond ==
    /\ data = DefaultData
    /\ cfg = DefaultCfg
    /\ gr = DefaultGr
    /\ packetSender = "nil"
    /\ los = LosIdle
    /\ tour = TourIdle
    /\ call = CallIdle
    /\ hid = <<>>
    /\ search = SearchIdle
    /\ buffer = BufferIdle
    /\ manager = ManagerIdle

NextBeyond ==
    \/ \E start \in BeyondPoints, target \in BeyondPoints, distance \in BeyondDistances :
          BeyondPositionCall(start, target, distance)
    \/ PlannerReturn

SpecBeyond == InitBeyond /\ [][NextBeyond]_vars

BeyondDone == call.op = "BeyondPosition" /\ call.pc = "done"

\* C22: BeyondPosition with start equal to target returns the target moved
\* by distance along the fixed direction (1, 0), that is
\* (target.X + distance, target.Y).
C22_IdenticalPositions ==
    (BeyondDone /\ call.start = call.target) =>
        call.beyond = Pos(call.target.X + call.distance, call.target.Y)

\* The call has returned for identical positions and a distance that is not 0.
C22_Witness ==
    /\ BeyondDone
    /\ call.start = call.target
    /\ call.distance = BeyondDistanceMax
    /\ call.beyond = Pos(call.target.X + BeyondDistanceMax, call.target.Y)

(***************************************************************************)
(* The planner operations on one snapshot                                  *)
(***************************************************************************)
\* Mutant: the loop ends at a point below the HUD line.
RECURSIVE OnScreenScanBreak(_, _)
OnScreenScanBreak(p, i) ==
    IF i < 0 THEN 0
    ELSE LET pos == p[i + 1]
             sc == gameCoordsToScreenCords(From(p).X, From(p).Y, pos.X, pos.Y)
         IN  IF sc.Y > HudBoundaryOf[gr.GameAreaSizeY] THEN 0
             ELSE IF sc.X >= 0 /\ sc.Y >= 0 /\ sc.X <= gr.GameAreaSizeX
                     /\ sc.Y <= gr.GameAreaSizeY
             THEN i
             ELSE OnScreenScanBreak(p, i - 1)

\* The backward loop of GetLastPathIndexOnScreen (lines 325-338) from index
\* i down, and the return 0 of line 340 when the loop ends
RECURSIVE OnScreenScan(_, _)
OnScreenScan(p, i) ==
    IF i < 0 THEN 0
    ELSE LET pos == p[i + 1]
             sc == gameCoordsToScreenCords(From(p).X, From(p).Y, pos.X, pos.Y)
         IN  IF sc.Y > HudBoundaryOf[gr.GameAreaSizeY] THEN OnScreenScan(p, i - 1)
             ELSE IF sc.X >= 0 /\ sc.Y >= 0 /\ sc.X <= gr.GameAreaSizeX
                     /\ sc.Y <= gr.GameAreaSizeY
             THEN i
             ELSE OnScreenScan(p, i - 1)

GetLastPathIndexOnScreen(p) == OnScreenScan(p, Len(p) - 1)

GetLastPathIndexOnScreenCall(p) ==
    /\ call.pc = "idle"
    /\ call' = [CallIdle EXCEPT !.pc = "done", !.op = "GetLastPathIndexOnScreen",
                                !.path = p, !.sel = GetLastPathIndexOnScreen(p)]
    /\ hid' = <<>>
    /\ UNCHANGED <<search, buffer, manager, data, cfg, gr, packetSender, los, tour>>

\* MoveCharacter(x, y, gamePos...), run up to its first call on the packet
\* sender or, when it makes none, to its end
MoveCharacterCall(x, y, gamePos) ==
    /\ call.pc = "idle"
    /\ \E r \in {MoveCharacter(data, cfg, packetSender, x, y, gamePos)} :
           /\ call' = [CallIdle EXCEPT !.pc = r.pc, !.op = "MoveCharacter",
                                       !.screen = Pos(x, y),
                                       !.worldPos = IF Len(gamePos) > 0 THEN gamePos[1]
                                                    ELSE Pos(0, 0),
                                       !.usePacket = Len(gamePos) > 0]
           /\ hid' = r.events
    /\ UNCHANGED <<search, buffer, manager, data, cfg, gr, packetSender, los, tour>>

\* The snapshots: an area of 200 x 200 cells at origin (100, 100) whose
\* walkable cells are those of the LineOfSight grid but (1, 1), two rooms of
\* which the second holds the player, a chest and a door, in a town and
\* outside, with and without the teleport capability
FrameSnapshots ==
    {[DefaultData EXCEPT !.AreaData.Grid = MkGrid(0, 0, 200, 200, LosCells \ {<<1, 1>>}),
                         !.AreaOrigin = Pos(100, 100),
                         !.PlayerUnit.Position = Pos(1, 1),
                         !.PlayerUnit.Area = a,
                         !.Rooms = <<Room(3, 3, 4, 4), Room(0, 0, 4, 4)>>,
                         !.Objects = <<Object(6, FALSE, TRUE, 1, 0), Object(3, TRUE, TRUE, 0, 1)>>,
                         !.KeyBindings.ForceMove = [Key1 |-> 70, Key2 |-> 0],
                         !.CanTeleport = t,
                         !.PlayerCastDuration = 280] :
        a \in {"RogueEncampment", "BloodMoor"}, t \in BOOLEAN}

FramePaths == {<<Pos(1, 1), Pos(2, 1)>>, <<Pos(2, 0), Pos(2, 2), Pos(1, 1)>>}

InitFrame ==
    /\ data \in FrameSnapshots
    /\ cfg = [UseForTeleport |-> TRUE, UseForSkillSelection |-> TRUE]
    /\ gr = [GameAreaSizeX |-> 900, GameAreaSizeY |-> 240]
    /\ packetSender = "sender"
    /\ los = LosIdle
    /\ tour = TourIdle
    /\ call = CallIdle
    /\ hid = <<>>
    /\ search = SearchIdle
    /\ buffer = BufferIdle
    /\ manager = ManagerIdle

NextFrame ==
    \/ \E destination \in {Pos(2, 0), Pos(GridMax, GridMax)} :
          LineOfSightCall(Pos(0, 0), destination)
    \/ LineOfSightStep
    \/ LineOfSightReturn
    \/ OptimizeRoomsCall
    \/ OptimizeRoomsReturn
    \/ \E p \in FramePaths : MoveThroughPathCall(p, 40)
    \/ \E gamePos \in {<<>>, <<Pos(200, 200)>>} : MoveCharacterCall(30, 25, gamePos)
    \/ DirectionalMovementCall(directions)
    \/ \E rx \in RandomDraws(gr.GameAreaSizeX \div 2) :
          RandomMovementCall(directions, rx, 0)
    \/ HasDoorBetweenCall(Pos(0, 0), <<>>, FALSE)
    \/ \E p \in FramePaths : HasDoorBetweenCall(p[1], p, TRUE)
    \/ \E p \in FramePaths : GetLastPathIndexOnScreenCall(p)
    \/ \E ok \in BOOLEAN : SelectRightSkillReturn(ok)
    \/ \E ok \in BOOLEAN : TeleportReturn(ok)
    \/ PlannerReturn

SpecFrame == InitFrame /\ [][NextFrame]_vars

\* C23: no step of a planner operation (MoveThroughPath, MoveCharacter,
\* DirectionalMovement, RandomMovement, LineOfSight,
\* OptimizeRoomsTraverseOrder, HasDoorBetween, GetLastPathIndexOnScreen)
\* changes the world snapshot: the collision grid, the player position, the
\* room list and the object list are the same after the step as before it.
C23_SnapshotUnchanged ==
    [][/\ data'.AreaData.Grid = data.AreaData.Grid
       /\ data'.PlayerUnit.Position = data.PlayerUnit.Position
       /\ data'.Rooms = data.Rooms
       /\ data'.Objects = data.Objects]_vars

\* LineOfSight, OptimizeRoomsTraverseOrder and HasDoorBetween have returned
\* on a snapshot with a grid, rooms and objects: the order of the tour is
\* not the order of the room list, and a door was found.
C23_Witness ==
    /\ los.pc = "done"
    /\ tour.pc = "done" /\ tour.order # data.Rooms
    /\ call.pc = "done" /\ call.op = "HasDoorBetween" /\ call.ret
    /\ ~data.AreaData.Grid.nil /\ data.Rooms # <<>> /\ data.Objects # <<>>

(***************************************************************************)
(* LogBuffer (package server, src/unnamed/part_001): a ring buffer of log  *)
(* entries.  Slot i of b.entries is entries[i + 1].  Every method runs     *)
(* under the buffer's lock from its first to its last statement, so each   *)
(* is one step.                                                            *)
(***************************************************************************)
MaxBufferSize == 3    \* LogBuffer: maxSize ranges over 1..MaxBufferSize
MaxAppends == 5       \* LogBuffer: Append calls made on one buffer
MaxMessages == 2      \* log entries: messages range over 1..MaxMessages

LogEntry(source, message) == [Source |-> source, Message |-> message]

\* The zero value of LogEntry
ZeroEntry == LogEntry("", 0)

NewLogBuffer(maxSize) ==
    [nil |-> FALSE, entries |-> [i \in 1..maxSize |-> ZeroEntry],
     maxSize |-> maxSize, head |-> 0, count |-> 0]

LogBufferAppend(b, entry) ==
    [b EXCEPT !.entries[b.head + 1] = entry,
              !.head = (b.head + 1) % b.maxSize,
              !.count = IF b.count < b.maxSize THEN b.count + 1 ELSE b.count]

\* Mutant of GetAll: a full buffer is copied from slot 0 as well.
GetAllFromZero(b) ==
    IF b.count = 0 THEN <<>>
    ELSE SubSeq(b.entries, 1, b.count)

GetAll(b) ==
    IF b.count = 0 THEN <<>>
    ELSE IF b.count < b.maxSize
    THEN SubSeq(b.entries, 1, b.count)
    ELSE SubSeq(b.entries, b.head + 1, b.maxSize) \o SubSeq(b.entries, 1, b.head)

\* Mutant of GetLast: the copy starts at the write position.
GetLastFromHead(b, n) ==
    IF b.count = 0 \/ n <= 0 THEN <<>>
    ELSE [i \in 1..(IF n > b.count THEN b.count ELSE n) |->
            b.entries[((b.head + (i - 1)) % b.maxSize) + 1]]

GetLast(b, n) ==
    IF b.count = 0 \/ n <= 0 THEN <<>>
    ELSE LET m == IF n > b.count THEN b.count ELSE n
             start == (b.head - m + b.maxSize) % b.maxSize
         IN  [i \in 1..m |-> b.entries[((start + (i - 1)) % b.maxSize) + 1]]

\* Mutant of Clear: the write position is not reset.
ClearCountOnly(b) == [b EXCEPT !.count = 0]

Clear(b) == [b EXCEPT !.head = 0, !.count = 0]

LogBufferLen(b) == b.count

LogBufferAppendCall(entry) ==
    /\ ~buffer.b.nil
    /\ buffer.appends < MaxAppends
    /\ buffer' = [buffer EXCEPT !.b = LogBufferAppend(buffer.b, entry),
                                !.appended = Append(@, entry),
                                !.appends = @ + 1,
                                !.op = "Append", !.n = 0, !.ret = <<>>, !.len = 0]
    /\ UNCHANGED <<search, manager, data, cfg, gr, packetSender, los, tour, call, hid>>

ClearCall ==
    /\ ~buffer.b.nil
    /\ buffer' = [buffer EXCEPT !.b = Clear(buffer.b),
                                !.appended = <<>>,
                                !.op = "Clear", !.n = 0, !.ret = <<>>, !.len = 0]
    /\ UNCHANGED <<search, manager, data, cfg, gr, packetSender, los, tour, call, hid>>

GetAllCall ==
    /\ ~buffer.b.nil
    /\ buffer' = [buffer EXCEPT !.op = "GetAll", !.n = 0,
                                !.ret = GetAll(buffer.b), !.len = 0]
    /\ UNCHANGED <<search, manager, data, cfg, gr, packetSender, los, tour, call, hid>>

GetLastCall(n) ==
    /\ ~buffer.b.nil
    /\ buffer' = [buffer EXCEPT !.op = "GetLast", !.n = n,
                                !.ret = GetLast(buffer.b, n), !.len = 0]
    /\ UNCHANGED <<search, manager, data, cfg, gr, packetSender, los, tour, call, hid>>

LenCall ==
    /\ ~buffer.b.nil
    /\ buffer' = [buffer EXCEPT !.op = "Len", !.n = 0, !.ret = <<>>,
                                !.len = LogBufferLen(buffer.b)]
    /\ UNCHANGED <<search, manager, data, cfg, gr, packetSender, los, tour, call, hid>>

LogEntries == {LogEntry("koolo", m) : m \in 1..MaxMessages}

InitBuffer ==
    /\ data = DefaultData
    /\ cfg = DefaultCfg
    /\ gr = DefaultGr
    /\ packetSender = "nil"
    /\ los = LosIdle
    /\ tour = TourIdle
    /\ call = CallIdle
    /\ hid = <<>>
    /\ search = SearchIdle
    /\ \E maxSize \in 1..MaxBufferSize :
          buffer = [BufferIdle EXCEPT !.b = NewLogBuffer(maxSize)]
    /\ manager = ManagerIdle

NextBuffer ==
    \/ \E entry \in LogEntries : LogBufferAppendCall(entry)
    \/ ClearCall
    \/ GetAllCall
    \/ \E n \in -1..(MaxBufferSize + 1) : GetLastCall(n)
    \/ LenCall

SpecBuffer == InitBuffer /\ [][NextBuffer]_vars

Min(a, b) == IF a < b THEN a ELSE b

\* The last n elements of the sequence q (all of it when n > Len(q))
LastOf(q, n) == SubSeq(q, Len(q) - Min(n, Len(q)) + 1, Len(q))

\* C24: after any sequence of Append and Clear calls on a LogBuffer with
\* maxSize >= 1, GetAll returns the last min(k, maxSize) entries appended
\* since the most recent Clear, oldest first, k being the number of those
\* appends; Len returns that count, which never exceeds maxSize.
C24_GetAllLastAppended ==
    /\ buffer.op = "GetAll" =>
          buffer.ret = LastOf(buffer.appended, buffer.b.maxSize)
    /\ buffer.op = "Len" =>
          /\ buffer.len = Min(Len(buffer.appended), buffer.b.maxSize)
          /\ buffer.len <= buffer.b.maxSize

\* GetAll is called on a buffer that was cleared and then took more entries
\* than it holds: the oldest entry returned is not the first one appended
\* since the Clear.
C24_Witness ==
    /\ buffer.op = "GetAll"
    /\ buffer.b.maxSize = 2
    /\ Len(buffer.appended) = 3
    /\ buffer.appends = MaxAppends
    /\ buffer.ret = SubSeq(buffer.appended, 2, 3)
    /\ buffer.ret[1] # buffer.appended[1]

\* C25: in every reachable LogBuffer state GetLast(n) returns the last
\* min(n, Len()) entries of what GetAll returns, in the same order, and the
\* empty list when n <= 0 or the buffer is empty.
C25_GetLastSuffixOfGetAll ==
    ~buffer.b.nil =>
        \A n \in -1..(MaxBufferSize + 1) :
            /\ GetLast(buffer.b, n) =
                  (IF n <= 0 THEN <<>>
                   ELSE LastOf(GetAll(buffer.b), Min(n, LogBufferLen(buffer.b))))
            /\ (n <= 0 \/ LogBufferLen(buffer.b) = 0) => GetLast(buffer.b, n) = <<>>
            /\ (buffer.op = "GetLast" /\ buffer.n = n) => buffer.ret = GetLast(buffer.b, n)

\* GetLast(2) is called on a full buffer of three entries whose write
\* position has wrapped: it returns the two newest entries.
C25_Witness ==
    /\ buffer.op = "GetLast" /\ buffer.n = 2
    /\ buffer.b.maxSize = 3 /\ buffer.b.count = 3 /\ buffer.b.head = 1
    /\ Len(buffer.appended) = 4
    /\ buffer.ret = SubSeq(buffer.appended, 3, 4)
    /\ buffer.ret[1] # buffer.ret[2]

\* C29: every reachable state of a LogBuffer with maxSize >= 1 has
\* 0 <= head < maxSize and 0 <= count <= maxSize, and head = count whenever
\* count < maxSize.
C29_HeadAndCount ==
    (~buffer.b.nil /\ buffer.b.maxSize >= 1) =>
        /\ 0 <= buffer.b.head /\ buffer.b.head < buffer.b.maxSize
        /\ 0 <= buffer.b.count /\ buffer.b.count <= buffer.b.maxSize
        /\ buffer.b.count < buffer.b.maxSize => buffer.b.head = buffer.b.count

\* A buffer of three entries that was filled and cleared holds one entry
\* again: head = count = 1.
C29_Witness ==
    /\ ~buffer.b.nil /\ buffer.b.maxSize = 3
    /\ buffer.appends = 4 /\ Len(buffer.appended) = 1
    /\ buffer.b.head = 1 /\ buffer.b.count = 1
    /\ buffer.b.entries[2] # ZeroEntry

(***************************************************************************)
(* LogBufferManager (src/unnamed/part_001).  m.buffers maps a source to a  *)
(* buffer of m.heap (the index is the address of the *LogBuffer); m.chans  *)
(* holds the channels made by Subscribe.  Goroutines: the threads that     *)
(* call Append, GetBuffer, Subscribe and Unsubscribe, the notifiers that   *)
(* Append starts, the closers that Unsubscribe starts, and the readers of  *)
(* the channels.  m.mu is held from the first to the last step of          *)
(* GetBuffer; m.subMu is held for reading over the loop of                 *)
(* notifySubscribers, and for writing over the single statement of         *)
(* Subscribe and of Unsubscribe that changes m.subscribers.                *)
(* History kept for the properties: the source a buffer was made for and   *)
(* the entries appended to it, the entries ever sent on a channel, the     *)
(* number of Append calls made when Unsubscribe returned, the buffers      *)
(* GetBuffer returned, the entries whose Append has returned, what the     *)
(* last GetSources returned and the sources that had an entry stored at    *)
(* that moment, and, in the runs that set history, the number of Append    *)
(* calls made when Subscribe returned.                                     *)
(***************************************************************************)
ChannelCapacity == 200    \* make(chan LogEntry, 200)
MaxManagerCalls == 2      \* LogBufferManager: Append and GetBuffer calls made
ManagerBufferSize == 2    \* LogBufferManager: maxSize of the buffers

Appenders == {"a1", "a2"}

Subscribers == {"s1"}

Sources == {"koolo", "sup"}

\* The channels: the one of the subscriber that has fallen behind, and one
\* for each subscribing thread
ManagerChannels == 1..(Cardinality(Subscribers) + 1)

ThreadIdle ==
    [pc |-> "idle", op |-> "none", entry |-> ZeroEntry, source |-> "",
     buf |-> 0, ch |-> 0, unsubscribed |-> FALSE, lastN |-> 0, logs |-> <<>>]

NewLogBufferManager(maxSize) ==
    [nil |-> FALSE, maxSize |-> maxSize, mu |-> "none", readers |-> {},
     buffers |-> <<>>, heap |-> <<>>, subscribers |-> {}, chans |-> <<>>,
     threads |-> [t \in Appenders \cup Subscribers |-> ThreadIdle],
     notifiers |-> <<>>, appends |-> 0, calls |-> 0,
     panic |-> FALSE, returned |-> {}, appendReturned |-> {}, history |-> FALSE,
     got |-> [valid |-> FALSE, sources |-> {}, stored |-> {}]]

\* make(chan LogEntry, 200); reader tells whether a goroutine receives from it
MakeChan(reader) ==
    [queue |-> <<>>, closed |-> FALSE, closer |-> "none", reader |-> reader,
     delivered |-> {}, subAt |-> -1, unsubAt |-> -1]

\* A new buffer after k calls of Append(entry): the first k slots are
\* written (all of them when k >= maxSize), head is k modulo maxSize
AppendTimes(maxSize, entry, k) ==
    [NewLogBuffer(maxSize) EXCEPT
        !.entries = [i \in 1..maxSize |-> IF i <= k THEN entry ELSE ZeroEntry],
        !.head = k % maxSize,
        !.count = IF k < maxSize THEN k ELSE maxSize]

\* The manager after Subscribe and k Append calls of the same entry, each
\* run to the end of its notifySubscribers, the subscriber receiving nothing
Behind(maxSize, entry, k) ==
    [NewLogBufferManager(maxSize) EXCEPT
        !.buffers = (entry.Source :> 1),
        !.heap = <<[buf |-> AppendTimes(maxSize, entry, k),
                    source |-> entry.Source, stored |-> {entry}]>>,
        !.subscribers = {1},
        !.chans = <<[MakeChan(FALSE) EXCEPT !.queue = [i \in 1..k |-> entry],
                                            !.delivered = {entry},
                                            !.subAt = 0]>>]

ManagerUnchanged ==
    UNCHANGED <<search, buffer, data, cfg, gr, packetSender, los, tour, call, hid>>

\* m.Append(entry) is called: line 144 calls GetBuffer
ManagerAppendCall(t, source) ==
    /\ t \in Appenders
    /\ manager.threads[t].pc = "idle"
    /\ manager.calls < MaxManagerCalls
    /\ manager' = [manager EXCEPT
          !.threads[t] = [ThreadIdle EXCEPT !.pc = "gbLock", !.op = "Append",
                             !.entry = LogEntry(source, manager.appends + 1),
                             !.source = source],
          !.appends = @ + 1,
          !.calls = @ + 1]
    /\ ManagerUnchanged

\* m.GetBuffer(source) is called
GetBufferCall(t, source) ==
    /\ t \in Appenders
    /\ manager.threads[t].pc = "idle"
    /\ manager.calls < MaxManagerCalls
    /\ manager' = [manager EXCEPT
          !.threads[t] = [ThreadIdle EXCEPT !.pc = "gbLock", !.op = "GetBuffer",
                             !.source = source],
          !.calls = @ + 1]
    /\ ManagerUnchanged

\* Mutant of GetBufferLookup: the lock is taken without waiting for it.
GetBufferLookupNoWait(t) ==
    /\ manager.threads[t].pc = "gbLock"
    /\ manager' = [manager EXCEPT
          !.mu = t,
          !.threads[t].buf = IF manager.threads[t].source \in DOMAIN manager.buffers
                             THEN manager.buffers[manager.threads[t].source]
                             ELSE 0,
          !.threads[t].pc = IF manager.threads[t].source \in DOMAIN manager.buffers
                            THEN "gbUnlock"
                            ELSE "gbCreate"]
    /\ ManagerUnchanged

\* m.mu.Lock(); if buf, ok := m.buffers[source]; ok { return buf }
GetBufferLookup(t) ==
    /\ manager.threads[t].pc = "gbLock"
    /\ manager.mu = "none"
    /\ manager' = [manager EXCEPT
          !.mu = t,
          !.threads[t].buf = IF manager.threads[t].source \in DOMAIN manager.buffers
                             THEN manager.buffers[manager.threads[t].source]
                             ELSE 0,
          !.threads[t].pc = IF manager.threads[t].source \in DOMAIN manager.buffers
                            THEN "gbUnlock"
                            ELSE "gbCreate"]
    /\ ManagerUnchanged

\* buf := NewLogBuffer(m.maxSize); m.buffers[source] = buf
GetBufferCreate(t) ==
    /\ manager.threads[t].pc = "gbCreate"
    /\ manager' = [manager EXCEPT
          !.heap = Append(@, [buf |-> NewLogBuffer(manager.maxSize),
                              source |-> manager.threads[t].source,
                              stored |-> {}]),
          !.buffers = [x \in DOMAIN manager.buffers \cup {manager.threads[t].source} |->
                          IF x = manager.threads[t].source
                          THEN Len(manager.heap) + 1
                          ELSE manager.buffers[x]],
          !.threads[t].buf = Len(manager.heap) + 1,
          !.threads[t].pc = "gbUnlock"]
    /\ ManagerUnchanged

\* The deferred m.mu.Unlock(): GetBuffer returns buf
GetBufferUnlock(t) ==
    /\ manager.threads[t].pc = "gbUnlock"
    /\ manager' = [manager EXCEPT
          !.mu = IF @ = t THEN "none" ELSE @,
          !.returned = @ \cup {[source |-> manager.threads[t].source,
                                buf |-> manager.threads[t].buf]},
          !.threads[t].pc = CASE manager.threads[t].op = "GetBuffer" -> "idle"
                              [] manager.threads[t].op = "Append" -> "bufAppend"
                              [] OTHER -> "read"]
    /\ ManagerUnchanged

\* buf.Append(entry), line 145
ManagerBufferAppend(t) ==
    /\ manager.threads[t].pc = "bufAppend"
    /\ manager' = [manager EXCEPT
          !.heap[manager.threads[t].buf] =
              [@ EXCEPT !.buf = LogBufferAppend(@, manager.threads[t].entry),
                        !.stored = @ \cup {manager.threads[t].entry}],
          !.threads[t].pc = "go"]
    /\ ManagerUnchanged

\* go m.notifySubscribers(entry), line 148: Append returns
GoNotifySubscribers(t) ==
    /\ manager.threads[t].pc = "go"
    /\ manager' = [manager EXCEPT
          !.notifiers = Append(@, [entry |-> manager.threads[t].entry, pc |-> "rlock",
                                   todo |-> {}, seen |-> {}, skipped |-> {}]),
          !.appendReturned = @ \cup {manager.threads[t].entry},
          !.threads[t].pc = "idle"]
    /\ ManagerUnchanged

\* Subscribe is called, once by each subscribing thread (BroadcastLogs):
\* ch := make(chan LogEntry, 200)
SubscribeCall(t) ==
    /\ t \in Subscribers
    /\ manager.threads[t].pc = "idle"
    /\ manager.threads[t].ch = 0
    /\ manager' = [manager EXCEPT
          !.chans = Append(@, MakeChan(TRUE)),
          !.threads[t] = [ThreadIdle EXCEPT !.pc = "subLock", !.op = "Subscribe",
                             !.ch = Len(manager.chans) + 1]]
    /\ ManagerUnchanged

\* m.subMu.Lock(); m.subscribers[ch] = struct{}{}; m.subMu.Unlock()
SubscribeInsert(t) ==
    /\ manager.threads[t].pc = "subLock"
    /\ manager.readers = {}
    /\ manager' = [manager EXCEPT
          !.subscribers = @ \cup {manager.threads[t].ch},
          !.chans[manager.threads[t].ch].subAt =
              IF manager.history THEN manager.appends ELSE -1,
          !.threads[t].pc = "idle"]
    /\ ManagerUnchanged

\* Unsubscribe(ch) is called, once, for the channel that Subscribe returned
UnsubscribeCall(t) ==
    /\ t \in Subscribers
    /\ manager.threads[t].pc = "idle"
    /\ manager.threads[t].ch # 0
    /\ ~manager.threads[t].unsubscribed
    /\ manager' = [manager EXCEPT
          !.threads[t].pc = "unsubLock", !.threads[t].op = "Unsubscribe",
          !.threads[t].unsubscribed = TRUE]
    /\ ManagerUnchanged

\* Mutant of UnsubscribeDelete: the write lock does not wait for the readers.
UnsubscribeDeleteNoWait(t) ==
    /\ manager.threads[t].pc = "unsubLock"
    /\ manager' = [manager EXCEPT
          !.subscribers = @ \ {manager.threads[t].ch},
          !.threads[t].pc = "unsubGo"]
    /\ ManagerUnchanged

\* m.subMu.Lock(); delete(m.subscribers, ch); m.subMu.Unlock()
UnsubscribeDelete(t) ==
    /\ manager.threads[t].pc = "unsubLock"
    /\ manager.readers = {}
    /\ manager' = [manager EXCEPT
          !.subscribers = @ \ {manager.threads[t].ch},
          !.threads[t].pc = "unsubGo"]
    /\ ManagerUnchanged

\* go func() { time.Sleep(100 * time.Millisecond); close(ch) }():
\* Unsubscribe returns
UnsubscribeGo(t) ==
    /\ manager.threads[t].pc = "unsubGo"
    /\ manager' = [manager EXCEPT
          !.chans[manager.threads[t].ch].closer = "sleep",
          !.chans[manager.threads[t].ch].unsubAt = manager.appends,
          !.threads[t].pc = "idle"]
    /\ ManagerUnchanged

\* The closer wakes up: close(ch)
CloseChannel(ch) ==
    /\ ch \in 1..Len(manager.chans)
    /\ manager.chans[ch].closer = "sleep"
    /\ manager' = [manager EXCEPT
          !.chans[ch].closer = "done",
          !.chans[ch].closed = TRUE,
          !.panic = @ \/ manager.chans[ch].closed]
    /\ ManagerUnchanged

\* notifySubscribers: m.subMu.RLock() and the start of the range loop
NotifyRLock(n) ==
    /\ n \in 1..Len(manager.notifiers)
    /\ manager.notifiers[n].pc = "rlock"
    /\ manager' = [manager EXCEPT
          !.readers = @ \cup {n},
          !.notifiers[n] = [@ EXCEPT !.pc = "loop", !.todo = manager.subscribers,
                                     !.seen = manager.subscribers]]
    /\ ManagerUnchanged

\* Mutant of NotifySend: the loop ends at a channel that is full.
NotifySendBreak(n, ch) ==
    /\ n \in 1..Len(manager.notifiers)
    /\ manager.notifiers[n].pc = "loop"
    /\ ch \in manager.notifiers[n].todo
    /\ manager' =
          IF manager.chans[ch].closed
          THEN [manager EXCEPT !.panic = TRUE, !.notifiers[n].todo = @ \ {ch}]
          ELSE IF Len(manager.chans[ch].queue) < ChannelCapacity
          THEN [manager EXCEPT
                  !.chans[ch].queue = Append(@, manager.notifiers[n].entry),
                  !.chans[ch].delivered = @ \cup {manager.notifiers[n].entry},
                  !.notifiers[n].todo = @ \ {ch}]
          ELSE [manager EXCEPT
                  !.notifiers[n].skipped =
                      @ \cup {[ch |-> ch, pending |-> Len(manager.chans[ch].queue)]},
                  !.notifiers[n].todo = {}]
    /\ ManagerUnchanged

\* Mutant of NotifySend: a plain send, which waits while the channel is full.
NotifySendBlocking(n, ch) ==
    /\ n \in 1..Len(manager.notifiers)
    /\ manager.notifiers[n].pc = "loop"
    /\ ch \in manager.notifiers[n].todo
    /\ manager.chans[ch].closed \/ Len(manager.chans[ch].queue) < ChannelCapacity
    /\ manager' =
          IF manager.chans[ch].closed
          THEN [manager EXCEPT !.panic = TRUE, !.notifiers[n].todo = @ \ {ch}]
          ELSE [manager EXCEPT
                  !.chans[ch].queue = Append(@, manager.notifiers[n].entry),
                  !.chans[ch].delivered = @ \cup {manager.notifiers[n].entry},
                  !.notifiers[n].todo = @ \ {ch}]
    /\ ManagerUnchanged

\* One iteration of the loop: select { case ch <- entry: default: }.  A send
\* on a closed channel panics.
NotifySend(n, ch) ==
    /\ n \in 1..Len(manager.notifiers)
    /\ manager.notifiers[n].pc = "loop"
    /\ ch \in manager.notifiers[n].todo
    /\ manager' =
          IF manager.chans[ch].closed
          THEN [manager EXCEPT !.panic = TRUE, !.notifiers[n].todo = @ \ {ch}]
          ELSE IF Len(manager.chans[ch].queue) < ChannelCapacity
          THEN [manager EXCEPT
                  !.chans[ch].queue = Append(@, manager.notifiers[n].entry),
                  !.chans[ch].delivered = @ \cup {manager.notifiers[n].entry},
                  !.notifiers[n].todo = @ \ {ch}]
          ELSE [manager EXCEPT
                  !.notifiers[n].skipped =
                      @ \cup {[ch |-> ch, pending |-> Len(manager.chans[ch].queue)]},
                  !.notifiers[n].todo = @ \ {ch}]
    /\ ManagerUnchanged

\* The loop has ended: the deferred m.subMu.RUnlock()
NotifyRUnlock(n) ==
    /\ n \in 1..Len(manager.notifiers)
    /\ manager.notifiers[n].pc = "loop"
    /\ manager.notifiers[n].todo = {}
    /\ manager' = [manager EXCEPT !.readers = @ \ {n}, !.notifiers[n].pc = "done"]
    /\ ManagerUnchanged

\* BroadcastLogs: the loop over the channel receives an entry
Receive(ch) ==
    /\ ch \in 1..Len(manager.chans)
    /\ manager.chans[ch].reader
    /\ manager.chans[ch].queue # <<>>
    /\ manager' = [manager EXCEPT !.chans[ch].queue = Tail(@)]
    /\ ManagerUnchanged

ManagerRest ==
    /\ data = DefaultData
    /\ cfg = DefaultCfg
    /\ gr = DefaultGr
    /\ packetSender = "nil"
    /\ los = LosIdle
    /\ tour = TourIdle
    /\ call = CallIdle
    /\ hid = <<>>
    /\ search = SearchIdle
    /\ buffer = BufferIdle

\* The runs start from a new manager
InitManager ==
    /\ ManagerRest
    /\ manager = NewLogBufferManager(ManagerBufferSize)

\* The runs start from a manager with one subscriber that is one entry
\* short of a full channel
InitManagerBehind ==
    /\ ManagerRest
    /\ manager = Behind(ManagerBufferSize, LogEntry("koolo", 0), ChannelCapacity - 1)

NextManager ==
    \/ \E t \in Appenders, source \in Sources : ManagerAppendCall(t, source)
    \/ \E t \in Appenders, source \in Sources : GetBufferCall(t, source)
    \/ \E t \in Appenders : GetBufferLookup(t)
    \/ \E t \in Appenders : GetBufferCreate(t)
    \/ \E t \in Appenders : GetBufferUnlock(t)
    \/ \E t \in Appenders : ManagerBufferAppend(t)
    \/ \E t \in Appenders : GoNotifySubscribers(t)
    \/ \E t \in Subscribers : SubscribeCall(t)
    \/ \E t \in Subscribers : SubscribeInsert(t)
    \/ \E t \in Subscribers : UnsubscribeCall(t)
    \/ \E t \in Subscribers : UnsubscribeDelete(t)
    \/ \E t \in Subscribers : UnsubscribeGo(t)
    \/ \E ch \in ManagerChannels : CloseChannel(ch)
    \/ \E n \in 1..MaxManagerCalls : NotifyRLock(n)
    \/ \E n \in 1..MaxManagerCalls, ch \in ManagerChannels : NotifySend(n, ch)
    \/ \E n \in 1..MaxManagerCalls : NotifyRUnlock(n)
    \/ \E ch \in ManagerChannels : Receive(ch)

SpecManager == InitManager /\ [][NextManager]_vars

\* C26: under every interleaving of GetBuffer and Append calls there is at
\* most one LogBuffer per source: no two buffers are made for the same
\* source, all calls of GetBuffer for a source return the same buffer, an
\* entry is stored only in a buffer made for its own Source, and every entry
\* whose Append has returned was stored in the buffer that the manager holds
\* for its source.
C26_OneBufferPerSource ==
    ~manager.nil =>
        /\ \A i, j \in 1..Len(manager.heap) :
              manager.heap[i].source = manager.heap[j].source => i = j
        /\ \A r1, r2 \in manager.returned : r1.source = r2.source => r1.buf = r2.buf
        /\ \A i \in 1..Len(manager.heap) :
              \A e \in manager.heap[i].stored : e.Source = manager.heap[i].source
        /\ \A e \in manager.appendReturned :
              /\ e.Source \in DOMAIN manager.buffers
              /\ e \in manager.heap[manager.buffers[e.Source]].stored

\* Two threads have appended an entry of the same source to a new manager:
\* one buffer was made, and it holds both entries.
C26_Witness ==
    /\ ~manager.nil
    /\ Cardinality(manager.appendReturned) = 2
    /\ \A e \in manager.appendReturned : e.Source = "sup"
    /\ Len(manager.heap) = 1
    /\ manager.heap[1].stored = manager.appendReturned
    /\ GetAll(manager.heap[1].buf) \in
          {<<LogEntry("sup", 1), LogEntry("sup", 2)>>,
           <<LogEntry("sup", 2), LogEntry("sup", 1)>>}

\* The steps of a thread inside Append or GetBuffer
AppenderStep(t) ==
    \/ GetBufferLookup(t)
    \/ GetBufferCreate(t)
    \/ GetBufferUnlock(t)
    \/ ManagerBufferAppend(t)
    \/ GoNotifySubscribers(t)

\* The channels that the notifier n has passed without sending
SkippedBy(n) == {s.ch : s \in manager.notifiers[n].skipped}

\* Append calls on a manager with a subscriber that has fallen behind and a
\* thread that subscribes
NextNotify ==
    \/ \E t \in Appenders, source \in Sources : ManagerAppendCall(t, source)
    \/ \E t \in Appenders : AppenderStep(t)
    \/ \E t \in Subscribers : SubscribeCall(t)
    \/ \E t \in Subscribers : SubscribeInsert(t)
    \/ \E n \in 1..MaxManagerCalls : NotifyRLock(n)
    \/ \E n \in 1..MaxManagerCalls, ch \in ManagerChannels : NotifySend(n, ch)
    \/ \E n \in 1..MaxManagerCalls : NotifyRUnlock(n)
    \/ \E ch \in ManagerChannels : Receive(ch)

SpecNotify == InitManagerBehind /\ [][NextNotify]_vars

\* C27: Append never waits for a subscriber: a thread inside Append can
\* take its next step unless it waits for m.mu at the entry of GetBuffer,
\* whatever the channels hold and wherever the notifiers stand; the entry is
\* in its source buffer before the subscribers are notified;
\* notifySubscribers passes a channel without sending only when the channel
\* holds 200 entries, that subscriber then misses the entry, and every other
\* subscriber of the loop is sent it.
C27_AppendNeverBlocks ==
    /\ \A t \in Appenders :
          (manager.threads[t].pc # "idle"
              /\ ~(manager.threads[t].pc = "gbLock" /\ manager.mu # "none"))
             => ENABLED AppenderStep(t)
    /\ \A t \in Appenders :
          (manager.threads[t].op = "Append" /\ manager.threads[t].pc = "go")
             => manager.threads[t].entry
                   \in manager.heap[manager.buffers[manager.threads[t].source]].stored
    /\ \A n \in 1..Len(manager.notifiers) :
          /\ \A s \in manager.notifiers[n].skipped :
                /\ s.pending = ChannelCapacity
                /\ manager.notifiers[n].entry \notin manager.chans[s.ch].delivered
          /\ manager.notifiers[n].pc = "done" =>
                \A ch \in manager.notifiers[n].seen \ SkippedBy(n) :
                    manager.notifiers[n].entry \in manager.chans[ch].delivered

\* The second Append has returned and its notifier has ended: the channel
\* that held 200 entries was passed, and the other subscriber was sent the
\* entry.
C27_Witness ==
    /\ ~manager.nil
    /\ Len(manager.notifiers) = 2
    /\ manager.notifiers[2].pc = "done"
    /\ manager.notifiers[2].entry \in manager.appendReturned
    /\ manager.notifiers[2].seen = {1, 2}
    /\ SkippedBy(2) = {1}
    /\ Len(manager.chans[1].queue) = ChannelCapacity
    /\ manager.notifiers[2].entry \in manager.chans[2].delivered

\* C30: under every interleaving of Append, Subscribe and Unsubscribe, each
\* channel being unsubscribed once, no entry is sent on a channel that has
\* been closed (the send would panic), and no entry of an Append called
\* after Unsubscribe(ch) has returned is sent on ch.
C30_NoSendAfterClose ==
    ~manager.nil =>
        /\ ~manager.panic
        /\ \A ch \in 1..Len(manager.chans) :
              manager.chans[ch].unsubAt >= 0 =>
                  \A e \in manager.chans[ch].delivered :
                      e.Message <= manager.chans[ch].unsubAt

\* A channel was sent the first entry, unsubscribed and closed; the notifier
\* of the Append called afterwards has ended without sending on it.
C30_Witness ==
    /\ ~manager.nil
    /\ Len(manager.chans) = 1
    /\ manager.chans[1].closed
    /\ manager.chans[1].unsubAt = 1
    /\ \E e \in manager.chans[1].delivered : e.Message = 1
    /\ Len(manager.notifiers) = 2
    /\ manager.notifiers[2].pc = "done"
    /\ manager.notifiers[2].entry.Message = 2
    /\ manager.notifiers[2].seen = {}

(***************************************************************************)
(* LineOfSight on a fully walkable grid                                    *)
(***************************************************************************)
OpenSize == 6       \* the fully walkable grid has OpenSize x OpenSize cells

OpenCoords == 0..(OpenSize - 1)

\* The fully walkable grid: every cell of the grid is walkable
OpenGrid ==
    MkGrid(0, 0, OpenSize, OpenSize, {<<x, y>> : x \in OpenCoords, y \in OpenCoords})

InitLOSOpen ==
    /\ data = [DefaultData EXCEPT !.AreaData.Grid = OpenGrid]
    /\ cfg = DefaultCfg
    /\ gr = DefaultGr
    /\ packetSender = "nil"
    /\ los = LosIdle
    /\ tour = TourIdle
    /\ call = CallIdle
    /\ hid = <<>>
    /\ search = SearchIdle
    /\ buffer = BufferIdle
    /\ manager = ManagerIdle

NextLOSOpen ==
    \/ \E ox \in OpenCoords, oy \in OpenCoords, tx \in OpenCoords, ty \in OpenCoords :
          LineOfSightCall(Pos(ox, oy), Pos(tx, ty))
    \/ LineOfSightStep
    \/ LineOfSightReturn

SpecLOSOpen == InitLOSOpen /\ [][NextLOSOpen]_vars

LosLongest == IF los.dx > los.dy THEN los.dx ELSE los.dy

\* C28: on a fully walkable grid the stepping loop of LineOfSight
\* terminates for every origin and destination: the stepped cell stays
\* between the origin and the destination on both axes (it never steps
\* past the destination), it has taken at most max(|dx|, |dy|) steps, after
\* max(|dx|, |dy|) steps it is the destination, and the loop ends on the
\* destination with true.
C28_LoopTerminates ==
    los.pc \in {"loop", "done"} =>
        /\ Abs(los.x - los.origin.X) <= los.dx
        /\ Abs(los.y - los.origin.Y) <= los.dy
        /\ Abs(los.destination.X - los.x) <= los.dx
        /\ Abs(los.destination.Y - los.y) <= los.dy
        /\ los.pc = "loop" =>
              /\ los.iters <= LosLongest
              /\ los.iters = LosLongest =>
                    (los.x = los.destination.X /\ los.y = los.destination.Y)
        /\ los.pc = "done" =>
              /\ los.result
              /\ los.x = los.destination.X /\ los.y = los.destination.Y
              /\ los.iters - 1 <= LosLongest

C28_Witness ==
    /\ LosDone /\ los.result
    /\ los.dx >= 3 /\ los.dy >= 1 /\ los.dx # los.dy
    /\ los.x = los.destination.X /\ los.y = los.destination.Y
    /\ los.iters = los.dx + 1

(***************************************************************************)
(* The queries of the LogBufferManager: GetAllLogs, getLogs, GetSources    *)
(***************************************************************************)
DefaultLastN == 100       \* getLogs: lastN := 100

\* m.GetAllLogs(source) is called: line 200 calls GetBuffer
GetAllLogsCall(t, source) ==
    /\ t \in Appenders
    /\ manager.threads[t].pc = "idle"
    /\ manager.calls < MaxManagerCalls
    /\ manager' = [manager EXCEPT
          !.threads[t] = [ThreadIdle EXCEPT !.pc = "gbLock", !.op = "GetAllLogs",
                             !.source = source],
          !.calls = @ + 1]
    /\ ManagerUnchanged

\* getLogs is called with the query parameters source and last (last is 0
\* for a parameter that is absent or not a number): the source defaults to
\* "koolo", lastN to 100, and GetBuffer is called
getLogsCall(t, source, last) ==
    /\ t \in Appenders
    /\ manager.threads[t].pc = "idle"
    /\ manager.calls < MaxManagerCalls
    /\ manager' = [manager EXCEPT
          !.threads[t] = [ThreadIdle EXCEPT !.pc = "gbLock", !.op = "getLogs",
                             !.source = IF source = "" THEN "koolo" ELSE source,
                             !.lastN = IF last > 0 THEN last ELSE DefaultLastN],
          !.calls = @ + 1]
    /\ ManagerUnchanged

\* buf.GetAll() of GetAllLogs, buf.GetLast(lastN) of getLogs: the query returns
BufferRead(t) ==
    /\ manager.threads[t].pc = "read"
    /\ manager' = [manager EXCEPT
          !.threads[t].logs =
              IF manager.threads[t].op = "GetAllLogs"
              THEN GetAll(manager.heap[manager.threads[t].buf].buf)
              ELSE GetLast(manager.heap[manager.threads[t].buf].buf,
                           manager.threads[t].lastN),
          !.threads[t].pc = "idle"]
    /\ ManagerUnchanged

\* The sources that have an entry stored in their buffer
StoredSources ==
    {manager.heap[b].source : b \in {x \in 1..Len(manager.heap) : manager.heap[x].stored # {}}}

\* m.GetSources(): the keys of m.buffers, read under m.mu.RLock()
GetSourcesCall ==
    /\ ~manager.nil
    /\ manager.mu = "none"
    /\ manager' = [manager EXCEPT
          !.got = [valid |-> TRUE, sources |-> DOMAIN manager.buffers,
                   stored |-> StoredSources]]
    /\ ManagerUnchanged

NextSources ==
    \/ \E t \in Appenders, source \in Sources : ManagerAppendCall(t, source)
    \/ \E t \in Appenders, source \in Sources : GetAllLogsCall(t, source)
    \/ \E t \in Appenders, source \in Sources \cup {""}, last \in 0..1 :
          getLogsCall(t, source, last)
    \/ \E t \in Appenders : GetBufferLookup(t)
    \/ \E t \in Appenders : GetBufferCreate(t)
    \/ \E t \in Appenders : GetBufferUnlock(t)
    \/ \E t \in Appenders : ManagerBufferAppend(t)
    \/ \E t \in Appenders : GoNotifySubscribers(t)
    \/ \E t \in Appenders : BufferRead(t)
    \/ GetSourcesCall

SpecSources == InitManager /\ [][NextSources]_vars

\* The sources for which Append has been called
LoggedSources ==
    {e.Source : e \in manager.appendReturned}
        \cup {manager.threads[t].source :
                 t \in {x \in Appenders : manager.threads[x].op = "Append"}}

\* C32: GetSources returns exactly the source names for which an entry has
\* been appended (every source that had an entry stored when it was called,
\* and no source for which Append was never called), and the manager holds
\* no source for which Append was never called, whatever queries were made.
\* The code adds the source of a query to the set.
C32_SourcesAreLogged ==
    /\ manager.got.valid =>
          /\ manager.got.stored \subseteq manager.got.sources
          /\ manager.got.sources \subseteq LoggedSources
    /\ DOMAIN manager.buffers \subseteq LoggedSources

(***************************************************************************)
(* The notification goroutines under fair scheduling                       *)
(***************************************************************************)
\* The runs start from a manager with one subscriber that is one entry
\* short of a full channel, and record when Subscribe returns
InitFair ==
    /\ ManagerRest
    /\ manager = [Behind(ManagerBufferSize, LogEntry("koolo", 0), ChannelCapacity - 1)
                    EXCEPT !.history = TRUE]

\* One goroutine appends, entry after entry, to a manager with a subscriber
\* that has fallen behind, while a thread subscribes, reads and unsubscribes
NextFair ==
    \/ ManagerAppendCall("a1", "sup")
    \/ AppenderStep("a1")
    \/ \E t \in Subscribers : SubscribeCall(t)
    \/ \E t \in Subscribers : SubscribeInsert(t)
    \/ \E t \in Subscribers : UnsubscribeCall(t)
    \/ \E t \in Subscribers : UnsubscribeDelete(t)
    \/ \E t \in Subscribers : UnsubscribeGo(t)
    \/ \E ch \in ManagerChannels : CloseChannel(ch)
    \/ \E n \in 1..MaxManagerCalls : NotifyRLock(n)
    \/ \E n \in 1..MaxManagerCalls, ch \in ManagerChannels : NotifySend(n, ch)
    \/ \E n \in 1..MaxManagerCalls : NotifyRUnlock(n)
    \/ \E ch \in ManagerChannels : Receive(ch)

\* The steps of the goroutine that Append started for its n-th entry
NotifierStep(n) ==
    \/ NotifyRLock(n)
    \/ \E ch \in ManagerChannels : NotifySend(n, ch)
    \/ NotifyRUnlock(n)

\* The scheduler runs every goroutine that can take a step: the notifiers
\* and the readers of the channels
SpecFair ==
    /\ InitFair
    /\ [][NextFair]_vars
    /\ \A n \in 1..MaxManagerCalls : WF_vars(NotifierStep(n))
    /\ \A ch \in ManagerChannels : WF_vars(Receive(ch))

NotifierStarted(n) == ~manager.nil /\ n <= Len(manager.notifiers)

\* The goroutine of the n-th entry; one that has not begun before it is started
NotifierOf(n) ==
    IF NotifierStarted(n)
    THEN manager.notifiers[n]
    ELSE [entry |-> ZeroEntry, pc |-> "none", todo |-> {}, seen |-> {}, skipped |-> {}]

\* The channel ch; a channel nobody subscribed before it is made
ChanOf(ch) ==
    IF ~manager.nil /\ ch <= Len(manager.chans) THEN manager.chans[ch] ELSE MakeChan(FALSE)

NotifierDone(n) == NotifierOf(n).pc = "done"

\* The channel ch was subscribed when Append was called for the entry e
SubscribedAtAppend(ch, e) ==
    /\ ChanOf(ch).subAt >= 0
    /\ ChanOf(ch).subAt < e.Message
    /\ ChanOf(ch).unsubAt < 0 \/ ChanOf(ch).unsubAt >= e.Message

\* The entry of the notifier n was placed on ch, or ch was passed because
\* it held 200 entries, or ch had been unsubscribed when n read m.subscribers
Settled(n, ch) ==
    \/ NotifierOf(n).entry \in ChanOf(ch).delivered
    \/ \E s \in NotifierOf(n).skipped : s.ch = ch /\ s.pending = ChannelCapacity
    \/ /\ NotifierOf(n).pc \in {"loop", "done"}
       /\ ch \notin NotifierOf(n).seen
       /\ \E t \in Subscribers :
             manager.threads[t].ch = ch /\ manager.threads[t].unsubscribed

QueueEntries(ch) == {ChanOf(ch).queue[i] : i \in 1..Len(ChanOf(ch).queue)}

\* The entry of the notifier n waits on no channel that has a reader
Received(n) ==
    \A ch \in ManagerChannels :
        (ChanOf(ch).reader /\ NotifierOf(n).entry \in ChanOf(ch).delivered)
            => NotifierOf(n).entry \notin QueueEntries(ch)

\* C33: under fair scheduling every notification goroutine that Append
\* started ends; when it has ended, for every channel that was subscribed
\* when Append was called the entry has been placed on the channel, or
\* passed because the channel was full or had been unsubscribed at
\* notification time; and the reader of a channel eventually receives the
\* entries placed on it.
C33_NotifiersTerminate ==
    /\ \A n \in 1..MaxManagerCalls :
          NotifierStarted(n) ~> (NotifierDone(n) /\ Received(n))
    /\ [](\A n \in 1..MaxManagerCalls : \A ch \in ManagerChannels :
             (NotifierDone(n) /\ SubscribedAtAppend(ch, NotifierOf(n).entry))
                => Settled(n, ch))

\* Both notifiers have ended: the first entry was placed on the channel
\* that had room and was passed by the second, which found the channel
\* full; the subscriber that joined received the second entry.
C33_Witness ==
    /\ NotifierDone(1) /\ NotifierDone(2)
    /\ manager.notifiers[1].entry \in manager.chans[1].delivered
    /\ SkippedBy(2) = {1}
    /\ Len(manager.chans) = 2
    /\ SubscribedAtAppend(2, manager.notifiers[2].entry)
    /\ manager.notifiers[2].entry \in manager.chans[2].delivered
    /\ manager.chans[2].queue = <<>>

\* The pairs <<i, j>> of places of a channel's queue, i ahead of j
QueuePairs(ch) ==
    {p \in (1..Len(ChanOf(ch).queue)) \X (1..Len(ChanOf(ch).queue)) : p[1] < p[2]}

\* C31: a subscriber receives the entries in the order in which Append was
\* called for them: one goroutine appending entry after entry (Message
\* counts its Append calls), of two entries waiting on the same channel the
\* one ahead is never the one appended later.  The code does not keep this
\* order.
C31_DeliveredInAppendOrder ==
    \A ch \in ManagerChannels : \A p \in QueuePairs(ch) :
        ChanOf(ch).queue[p[1]].Message <= ChanOf(ch).queue[p[2]].Message

(***************************************************************************)
(* GetLastPathIndexOnScreen and the teleport strategy on the same path     *)
(***************************************************************************)
InitOnScreen ==
    /\ data \in TeleportSnapshots
    /\ cfg = [UseForTeleport |-> FALSE, UseForSkillSelection |-> FALSE]
    /\ packetSender = "nil"
    /\ gr \in WindowSizes
    /\ los = LosIdle
    /\ tour = TourIdle
    /\ call = CallIdle
    /\ hid = <<>>
    /\ search = SearchIdle
    /\ buffer = BufferIdle
    /\ manager = ManagerIdle

NextOnScreen ==
    \/ \E p \in Paths \ {<<>>} : GetLastPathIndexOnScreenCall(p)
    \/ \E p \in Paths \ {<<>>} : MoveThroughPathCall(p, 0)
    \/ PlannerReturn

SpecOnScreen == InitOnScreen /\ [][NextOnScreen]_vars

\* The indices (from 0) of the points of p that project inside the viewport
\* and not below the HUD line
OnScreenIndices(p) ==
    {i \in 0..(Len(p) - 1) :
        LET sc == gameCoordsToScreenCords(p[1].X, p[1].Y, p[i + 1].X, p[i + 1].Y)
        IN  /\ sc.Y <= HudBoundaryOf[gr.GameAreaSizeY]
            /\ sc.X >= 0 /\ sc.X <= gr.GameAreaSizeX
            /\ sc.Y >= 0 /\ sc.Y <= gr.GameAreaSizeY}

Greatest(S) == CHOOSE i \in S : \A j \in S : j <= i

\* C34: for every non-empty path and viewport GetLastPathIndexOnScreen
\* returns the greatest index of a point inside the viewport and not below
\* the HUD line, which is the index of the point moveThroughPathTeleport
\* casts on, and 0 when no point qualifies (then the teleport strategy
\* makes no cast).
C34_SameIndexAsTeleport ==
    /\ (call.pc = "done" /\ call.op = "GetLastPathIndexOnScreen") =>
          /\ call.sel = IF OnScreenIndices(call.path) = {} THEN 0
                        ELSE Greatest(OnScreenIndices(call.path))
          /\ LET t == moveThroughPathTeleport(data, cfg, packetSender, call.path)
             IN  IF OnScreenIndices(call.path) = {}
                 THEN t.sel = -1 /\ t.move.events = <<>>
                 ELSE t.sel = call.sel
    /\ (call.pc = "done" /\ call.op = "MoveThroughPath") =>
          IF OnScreenIndices(call.path) = {}
          THEN call.sel = -1 /\ GetLastPathIndexOnScreen(call.path) = 0
          ELSE /\ call.sel = GetLastPathIndexOnScreen(call.path)
               /\ call.sel = Greatest(OnScreenIndices(call.path))

\* GetLastPathIndexOnScreen has returned the middle point of a path whose
\* last point does not qualify.
C34_Witness ==
    /\ call.pc = "done" /\ call.op = "GetLastPathIndexOnScreen"
    /\ Len(call.path) = 3
    /\ call.sel = 1
    /\ OnScreenIndices(call.path) = {0, 1}

(***************************************************************************)
(* The monster predicates: IsActBoss, IsMonsterSealElite, IsQuestEnemy,    *)
(* ShouldIgnoreMonster.  A monster has a name, a type and the resists it   *)
(* is immune to.  In a Go switch a case with an empty body ends the        *)
(* switch: nothing falls through to the next case.                         *)
(***************************************************************************)
IsActBoss(m) ==
    CASE m.Name = "Andariel" -> FALSE
      [] m.Name = "Duriel" -> FALSE
      [] m.Name = "Mephisto" -> FALSE
      [] m.Name = "Diablo" -> FALSE
      [] m.Name = "BaalCrab" -> TRUE
      [] OTHER -> FALSE

IsMonsterSealElite(m) ==
    /\ m.Type = "SuperUnique"
    /\ m.Name = "OblivionKnight" \/ m.Name = "VenomLord" \/ m.Name = "StormCaster"

IsQuestEnemy(m) ==
    IF IsActBoss(m) THEN TRUE
    ELSE IF IsMonsterSealElite(m) THEN TRUE
    ELSE CASE m.Name = "Summoner" -> FALSE
           [] m.Name = "CouncilMember" -> FALSE
           [] m.Name = "CouncilMember2" -> FALSE
           [] m.Name = "CouncilMember3" -> TRUE
           [] OTHER -> FALSE

\* m.IsImmune(resist)
IsImmune(m, resist) == resist \in m.Immunities

\* m.IsElite(): the monster is a champion, a minion, a unique or a super unique
IsElite(m) == m.Type \in {"Champion", "Minion", "Unique", "SuperUnique"}

\* The loop of ShouldIgnoreMonster over SkipOnImmunities from index i on
RECURSIVE ImmuneToAll(_, _, _)
ImmuneToAll(m, skip, i) ==
    IF i > Len(skip) THEN TRUE
    ELSE IF ~IsImmune(m, skip[i]) THEN FALSE
    ELSE ImmuneToAll(m, skip, i + 1)

\* ShouldIgnoreMonster(m, focusElites) in a context with CurrentGame.IsBlocked()
\* = blocked and CharacterCfg.Character.SkipOnImmunities = skip
ShouldIgnoreMonster(m, focusElites, blocked, skip) ==
    IF IsQuestEnemy(m) THEN FALSE
    ELSE IF ~blocked /\ Len(skip) > 0 /\ ImmuneToAll(m, skip, 1) THEN TRUE
    ELSE IF focusElites /\ ~IsElite(m) THEN TRUE
    ELSE FALSE

IsActBossCall(m) ==
    /\ call.pc = "idle"
    /\ call' = [CallIdle EXCEPT !.pc = "done", !.op = "IsActBoss", !.monster = m,
                                !.ret = IsActBoss(m)]
    /\ hid' = <<>>
    /\ UNCHANGED <<search, buffer, manager, data, cfg, gr, packetSender, los, tour>>

IsQuestEnemyCall(m) ==
    /\ call.pc = "idle"
    /\ call' = [CallIdle EXCEPT !.pc = "done", !.op = "IsQuestEnemy", !.monster = m,
                                !.ret = IsQuestEnemy(m)]
    /\ hid' = <<>>
    /\ UNCHANGED <<search, buffer, manager, data, cfg, gr, packetSender, los, tour>>

ShouldIgnoreMonsterCall(m, focusElites, blocked, skip) ==
    /\ call.pc = "idle"
    /\ call' = [CallIdle EXCEPT !.pc = "done", !.op = "ShouldIgnoreMonster",
                                !.monster = m, !.focusElites = focusElites,
                                !.blocked = blocked, !.skip = skip,
                                !.ret = ShouldIgnoreMonster(m, focusElites, blocked, skip)]
    /\ hid' = <<>>
    /\ UNCHANGED <<search, buffer, manager, data, cfg, gr, packetSender, los, tour>>

\* The monsters of the runs: the names of the two switches and of the seal
\* elites, and one other monster
MonsterNames ==
    {"Andariel", "Duriel", "Mephisto", "Diablo", "BaalCrab",
     "OblivionKnight", "VenomLord", "StormCaster",
     "Summoner", "CouncilMember", "CouncilMember2", "CouncilMember3", "Zombie"}

MonsterTypes == {"None", "Champion", "Minion", "Unique", "SuperUnique"}

Resists == {"Fire", "Cold"}

Monsters ==
    {[Name |-> n, Type |-> t, Immunities |-> i] :
        n \in MonsterNames, t \in MonsterTypes, i \in SUBSET Resists}

SkipLists == {<<>>, <<"Fire">>, <<"Cold">>, <<"Fire", "Cold">>, <<"Cold", "Fire">>}

InitMonster ==
    /\ data = DefaultData
    /\ cfg = DefaultCfg
    /\ gr = DefaultGr
    /\ packetSender = "nil"
    /\ los = LosIdle
    /\ tour = TourIdle
    /\ call = CallIdle
    /\ hid = <<>>
    /\ search = SearchIdle
    /\ buffer = BufferIdle
    /\ manager = ManagerIdle

NextMonster ==
    \/ \E m \in Monsters : IsActBossCall(m)
    \/ \E m \in Monsters : IsQuestEnemyCall(m)
    \/ \E m \in Monsters, focusElites \in BOOLEAN, blocked \in BOOLEAN, skip \in SkipLists :
          ShouldIgnoreMonsterCall(m, focusElites, blocked, skip)
    \/ PlannerReturn

SpecMonster == InitMonster /\ [][NextMonster]_vars

ActBossNames == {"Andariel", "Duriel", "Mephisto", "Diablo", "BaalCrab"}

\* The mandatory enemies: the act bosses, the seal elites, the Summoner and
\* the three council member variants
MandatoryEnemy(m) ==
    \/ m.Name \in ActBossNames
    \/ m.Type = "SuperUnique" /\ m.Name \in {"OblivionKnight", "VenomLord", "StormCaster"}
    \/ m.Name \in {"Summoner", "CouncilMember", "CouncilMember2", "CouncilMember3"}

\* C35: IsActBoss returns true for each of Andariel, Duriel, Mephisto,
\* Diablo and Baal (BaalCrab) and false for every other monster;
\* IsQuestEnemy returns true for every act boss, every seal elite, the
\* Summoner and each of the three council member variants.  The code
\* returns true for the last case of each switch only.
C35_BossesAndQuestEnemies ==
    /\ (call.pc = "done" /\ call.op = "IsActBoss") =>
          (call.ret <=> call.monster.Name \in ActBossNames)
    /\ (call.pc = "done" /\ call.op = "IsQuestEnemy" /\ MandatoryEnemy(call.monster)) =>
          call.ret

\* C36: ShouldIgnoreMonster returns false for every mandatory enemy,
\* whatever the immunity skip list and focusElites; for any other monster
\* it returns true exactly when the game is not blocked, the skip list is
\* not empty and the monster is immune to every resist of the list, or
\* focusElites is set and the monster is not elite.  The code ignores the
\* mandatory enemies that IsQuestEnemy does not recognise.
C36_MandatoryNeverIgnored ==
    (call.pc = "done" /\ call.op = "ShouldIgnoreMonster") =>
        IF MandatoryEnemy(call.monster)
        THEN ~call.ret
        ELSE call.ret <=>
                \/ /\ ~call.blocked
                   /\ call.skip # <<>>
                   /\ \A i \in 1..Len(call.skip) : call.skip[i] \in call.monster.Immunities
                \/ call.focusElites /\ ~IsElite(call.monster)

====
